---- MODULE Spec2Model ----
(***************************************************************************)
(* Weather 4 Bike: scoring and alerting engine (js/insights.js), recents   *)
(* store (js/location.js) and forecast fetch (js/weather.js).              *)
(*                                                                         *)
(* Number representation (all integers):                                   *)
(*   wind speed        hundredths of km/h  (25.00 km/h = 2500)             *)
(*   temperature       tenths of a degree C (35.0 C = 350)                 *)
(*   humidity, precipitation probability   whole percent                  *)
(*   visibility        metres                                              *)
(*   UV index          tenths (7.0 = 70)                                   *)
(*   precipitation     tenths of a mm                                      *)
(*   scores, penalties hundredths of a point (10.0 = 1000, 0.5 = 50)       *)
(* Every penalty of the code is a multiple of 0.1, so the binary floating  *)
(* point sums of the code differ from these exact values by far less than  *)
(* the 0.05 that Math.round(x * 10) / 10 absorbs.                          *)
(***************************************************************************)
EXTENDS Integers, Sequences, FiniteSets, TLC

VARIABLES
  current,       \* weatherData.current: the reading handed to insights.js
  windRelation,  \* the windRelation argument of calculateBikeScoreFromWeather
  scores,        \* ScoreResult of the road, gravel and MTB scoring functions
  alerts,        \* list returned by generateSafetyAlerts
  localStorage,  \* the browser store: the item under RECENTS_KEY
  clock,         \* the millisecond Date.now() returns
  saveLog,       \* history: the locations given to saveRecentLocation, in order
  freshSaved,    \* how many first-time locations have been saved
  extras,        \* how many re-saves, alias saves, clears and ticks happened
  fetchPc,       \* where the running fetchWeatherData call stands
  fetchArgs,     \* its latitude and longitude
  candidateIdx,  \* index of the hourly set being tried (the loop variable h)
  lastError,     \* its lastError
  requestLog,    \* history: the forecast requests it issued and how each went
  fetchReturn,   \* what the call returned or threw
  state,         \* app.js state: activity, location, weather, units
  toast,         \* the toast element: its text and whether it is hidden
  locationIndicator, \* text of the location indicator
  lastLocationItem,  \* the browser store: the item under LAST_KEY
  loads,         \* the loadWeather calls made so far, each with its position
  startup,       \* position of the DOMContentLoaded handler
  geoButton,     \* position of the use-geolocation click handler
  geoLog,        \* history: the geolocation requests and how each ended
  insightsView,  \* what renderInsights put into the insights container
  search,        \* the search box: pending lookup, candidates listed, hidden
  baseScore,     \* the 0-100 score given to applyEnvironmentalPenalties
  penalized,     \* what applyEnvironmentalPenalties returned for it
  response,      \* the forecast JSON handed to parseWeatherResponse
  nowMs,         \* the time new Date() gives, in minutes
  parsed,        \* what parseWeatherResponse returned for the response
  conditions     \* gravel conditions and trail readiness computed from it

insightVars == <<current, windRelation, scores, alerts>>

recentsVars == <<localStorage, clock, saveLog, freshSaved, extras>>

fetchVars == <<fetchPc, fetchArgs, candidateIdx, lastError, requestLog, fetchReturn>>

appVars == <<state, toast, locationIndicator, lastLocationItem, loads, startup,
             geoButton, geoLog, insightsView, search>>

penaltyVars == <<baseScore, penalized>>

forecastVars == <<response, nowMs, parsed, conditions>>

vars == <<current, windRelation, scores, alerts,
          localStorage, clock, saveLog, freshSaved, extras,
          fetchPc, fetchArgs, candidateIdx, lastError, requestLog, fetchReturn,
          state, toast, locationIndicator, lastLocationItem, loads, startup,
          geoButton, geoLog, insightsView, search, baseScore, penalized,
          response, nowMs, parsed, conditions>>

\* null / undefined / missing field
Null == -1000000

Max(a, b) == IF a >= b THEN a ELSE b
Min(a, b) == IF a <= b THEN a ELSE b

\* Math.round(v): nearest integer, halves up; v given as num/den with den > 0
MathRound(num, den) == (2 * num + den) \div (2 * den)

\* Math.round(x * 10) / 10 on a value held in hundredths
RoundTo1Decimal(x) == MathRound(x, 10) * 10

\* mutant of kph: the speed truncated to one decimal instead of rounded
kph_Truncated(kmh) == IF kmh = Null THEN 0 ELSE (kmh \div 10) * 10

\* insights.js kph(): null -> 0, else rounded to one decimal
kph(kmh) == IF kmh = Null THEN 0 ELSE RoundTo1Decimal(kmh)

\* mutant of NumberOrZero: a missing value defaults to 15 (150 tenths), the
\* default the alert generator uses for temperature
NumberOrZero_DefaultFifteen(v) == IF v = Null THEN 150 ELSE v

\* Number(v) || 0
NumberOrZero(v) == IF v = Null THEN 0 ELSE v

\* v ?? d
Coalesce(v, d) == IF v = Null THEN d ELSE v

(***************************************************************************)
(* Scoring engine: the penalty steps shared by the three 1-10 algorithms   *)
(***************************************************************************)

\* mutant of WindStep: the final else is missing, so that a speed above
\* 40 km/h keeps the initial penalty 0
WindStep_NoFinalElse(windSpeedKmh) ==
  IF windSpeedKmh <= 1000 THEN 0
  ELSE IF windSpeedKmh <= 2000 THEN 1
  ELSE IF windSpeedKmh <= 3000 THEN 2
  ELSE IF windSpeedKmh <= 4000 THEN 3
  ELSE 0

\* wind step 0..4 on a speed in hundredths of km/h
WindStep(windSpeedKmh) ==
  IF windSpeedKmh <= 1000 THEN 0
  ELSE IF windSpeedKmh <= 2000 THEN 1
  ELSE IF windSpeedKmh <= 3000 THEN 2
  ELSE IF windSpeedKmh <= 4000 THEN 3
  ELSE 4

\* String.prototype.toLowerCase on the relation strings the model uses
ToLowerCase(s) ==
  CASE s = "Headwind" -> "headwind"
    [] s = "TAILWIND" -> "tailwind"
    [] OTHER -> s

\* String(windDirectionRelation || 'crosswind').toLowerCase(); "" is absent
NormalizeRelation(rel) == ToLowerCase(IF rel = "" THEN "crosswind" ELSE rel)

\* mutant of RoadWindMultiplier: the headwind and tailwind factors swapped
RoadWindMultiplier_Swapped(rel) ==
  LET dir == NormalizeRelation(rel)
  IN  IF dir = "headwind" THEN 70
      ELSE IF dir = "tailwind" THEN 130
      ELSE 100

\* road wind multiplier in hundredths: headwind 1.3, tailwind 0.7, else 1.0
RoadWindMultiplier(rel) ==
  LET dir == NormalizeRelation(rel)
  IN  IF dir = "headwind" THEN 130
      ELSE IF dir = "tailwind" THEN 70
      ELSE 100

\* road wind penalty after the direction multiplier, in hundredths
RoadWindPenalty(windSpeedKmh, rel) == WindStep(windSpeedKmh) * RoadWindMultiplier(rel)

\* road temperature penalty in whole points, temperature in tenths of a degree
RoadTempPenalty(temperatureC) ==
  IF temperatureC >= 150 /\ temperatureC <= 250 THEN 0
  ELSE IF (temperatureC >= 100 /\ temperatureC < 150)
          \/ (temperatureC > 250 /\ temperatureC <= 300) THEN 1
  ELSE IF temperatureC >= 50 /\ temperatureC < 100 THEN 2
  ELSE IF temperatureC > 300 /\ temperatureC <= 350 THEN 3
  ELSE IF temperatureC > 350 THEN 6
  ELSE 3

\* mutant of OffroadTempPenalty: gravel and MTB take the road penalties
OffroadTempPenalty_AsRoad(tempC) == RoadTempPenalty(tempC)

\* gravel and MTB temperature penalty in whole points
OffroadTempPenalty(tempC) ==
  IF tempC >= 150 /\ tempC <= 250 THEN 0
  ELSE IF (tempC >= 100 /\ tempC < 150) \/ (tempC > 250 /\ tempC <= 300) THEN 1
  ELSE IF tempC >= 50 /\ tempC < 100 THEN 2
  ELSE IF tempC > 300 /\ tempC <= 350 THEN 4
  ELSE IF tempC > 350 THEN 7
  ELSE 3

HumidityPenalty(humidityPct) ==
  IF humidityPct <= 60 THEN 0
  ELSE IF humidityPct <= 80 THEN 1
  ELSE 2

\* mutant of HumidityCeiling: the ceiling applies above 90 % only
HumidityCeiling_Above90(totalScore, humidityPct, cap) ==
  IF humidityPct > 90 THEN Min(totalScore, cap) ELSE totalScore

\* ceiling applied right after the humidity penalty when humidity >= 90
HumidityCeiling(totalScore, humidityPct, cap) ==
  IF humidityPct >= 90 THEN Min(totalScore, cap) ELSE totalScore

\* visibility in metres (visibilityKm * 1000)
VisibilityPenalty(visibilityKm) ==
  IF visibilityKm >= 10000 THEN 0
  ELSE IF visibilityKm >= 5000 THEN 1
  ELSE IF visibilityKm >= 2000 THEN 2
  ELSE 3

\* mutant of UvPenalty: the final else is missing, so that a UV index above 9
\* keeps the initial penalty 0
UvPenalty_NoFinalElse(uvIndex) ==
  IF uvIndex <= 50 THEN 0
  ELSE IF uvIndex <= 70 THEN 50
  ELSE IF uvIndex <= 90 THEN 100
  ELSE 0

\* UV penalty in hundredths, UV index in tenths
UvPenalty(uvIndex) ==
  IF uvIndex <= 50 THEN 0
  ELSE IF uvIndex <= 70 THEN 50
  ELSE IF uvIndex <= 90 THEN 100
  ELSE 150

\* mutant of HeatCap: the heat cap set to 4.0 instead of 2.0
HeatCap_At4(totalScore, temperatureC) ==
  IF temperatureC > 350 THEN Min(totalScore, 400) ELSE totalScore

\* hard cap for extreme heat: temperature > 35 C caps the total at 2.0
HeatCap(totalScore, temperatureC) ==
  IF temperatureC > 350 THEN Min(totalScore, 200) ELSE totalScore

\* mutant of FinalScore: the lower clamp Math.max(1, ...) is missing
FinalScore_NoFloor(totalScore) == Min(1000, RoundTo1Decimal(totalScore))

\* Math.max(1, Math.min(10, Math.round(totalScore * 10) / 10))
FinalScore(totalScore) == Max(100, Min(1000, RoundTo1Decimal(totalScore)))

\* mutant of ScoreBand: the fourth band starts at 2 instead of 3
ScoreBand_FourthFrom2(finalScore) ==
  IF finalScore >= 800 THEN 1
  ELSE IF finalScore >= 600 THEN 2
  ELSE IF finalScore >= 400 THEN 3
  ELSE IF finalScore >= 200 THEN 4
  ELSE 5

\* band 1..5 of the message, chosen by the final score
ScoreBand(finalScore) ==
  IF finalScore >= 800 THEN 1
  ELSE IF finalScore >= 600 THEN 2
  ELSE IF finalScore >= 400 THEN 3
  ELSE IF finalScore >= 300 THEN 4
  ELSE 5

RoadMessages ==
  <<"Perfect conditions! Go for that long ride!",
    "Good conditions for cycling. Enjoy your ride!",
    "Decent conditions, but be prepared for some challenges.",
    "Challenging conditions. Only go if you're experienced.",
    "Poor conditions. Consider indoor training.">>

GravelMessages ==
  <<"Great day for gravel!", "Good gravel conditions.",
    "Manageable gravel, expect challenges.",
    "Challenging gravel conditions.", "Poor gravel conditions.">>

MTBMessages ==
  <<"Trails are prime!", "Good day to ride.", "Rideable with caution.",
    "Challenging trail conditions.", "Not recommended today.">>

UvAdvisory == " Consider riding early or late due to high UV."

\* the message as the list of its sentences: band text, then the UV advisory
ScoreMessage(texts, finalScore, uvIndex) ==
  <<texts[ScoreBand(finalScore)]>> \o (IF uvIndex >= 70 THEN <<UvAdvisory>> ELSE <<>>)

\* mutant of ScoreResult: the breakdown leaves the UV penalty out
ScoreResult_NoUvPenalty(finalScore, message, windPenalty, tempPenalty, humidityPenalty, visibilityPenalty, uvPenalty) ==
  [score |-> finalScore,
   message |-> message,
   breakdown |-> [windPenalty |-> RoundTo1Decimal(windPenalty),
                  temperaturePenalty |-> tempPenalty * 100,
                  humidityPenalty |-> humidityPenalty * 100,
                  visibilityPenalty |-> visibilityPenalty * 100,
                  uvPenalty |-> 0]]

\* the object every scoring function returns
ScoreResult(finalScore, message, windPenalty, tempPenalty, humidityPenalty, visibilityPenalty, uvPenalty) ==
  [score |-> finalScore,
   message |-> message,
   breakdown |-> [windPenalty |-> RoundTo1Decimal(windPenalty),
                  temperaturePenalty |-> tempPenalty * 100,
                  humidityPenalty |-> humidityPenalty * 100,
                  visibilityPenalty |-> visibilityPenalty * 100,
                  uvPenalty |-> RoundTo1Decimal(uvPenalty)]]

\* mutant of calculateBikeScore: the humidity ceiling is applied last, after
\* the visibility and UV penalties
calculateBikeScore_CeilingLast(windSpeedKmh, windDirectionRelation, temperatureC, humidityPct, visibilityKm, uvIndex) ==
  LET windPenalty == RoadWindPenalty(windSpeedKmh, windDirectionRelation)
      tempPenalty == RoadTempPenalty(temperatureC)
      humidityPenalty == HumidityPenalty(humidityPct)
      visibilityPenalty == VisibilityPenalty(visibilityKm)
      uvPenalty == UvPenalty(uvIndex)
      t1 == 1000 - windPenalty
      t2 == t1 - tempPenalty * 100
      t3 == t2 - humidityPenalty * 100
      t4 == t3 - visibilityPenalty * 100
      t5 == HumidityCeiling(t4 - uvPenalty, humidityPct, 400)
      totalScore == HeatCap(t5, temperatureC)
      finalScore == FinalScore(totalScore)
  IN  ScoreResult(finalScore, ScoreMessage(RoadMessages, finalScore, uvIndex),
                  windPenalty, tempPenalty, humidityPenalty, visibilityPenalty,
                  uvPenalty)

\* calculateBikeScore(windSpeedKmh, windDirectionRelation, temperatureC,
\*                    humidityPct, visibilityKm, uvIndex)
calculateBikeScore(windSpeedKmh, windDirectionRelation, temperatureC, humidityPct, visibilityKm, uvIndex) ==
  LET windPenalty == RoadWindPenalty(windSpeedKmh, windDirectionRelation)
      tempPenalty == RoadTempPenalty(temperatureC)
      humidityPenalty == HumidityPenalty(humidityPct)
      visibilityPenalty == VisibilityPenalty(visibilityKm)
      uvPenalty == UvPenalty(uvIndex)
      t1 == 1000 - windPenalty
      t2 == t1 - tempPenalty * 100
      t3 == HumidityCeiling(t2 - humidityPenalty * 100, humidityPct, 400)
      t4 == t3 - visibilityPenalty * 100
      t5 == t4 - uvPenalty
      totalScore == HeatCap(t5, temperatureC)
      finalScore == FinalScore(totalScore)
  IN  ScoreResult(finalScore, ScoreMessage(RoadMessages, finalScore, uvIndex),
                  windPenalty, tempPenalty, humidityPenalty, visibilityPenalty,
                  uvPenalty)

\* Math.max(0, Number(c.visibility || 0) / 1000), kept in metres
VisKm(visibility) == Max(0, NumberOrZero(visibility))

calculateBikeScoreFromWeather(c, rel) ==
  calculateBikeScore(kph(c.windSpeed), rel, NumberOrZero(c.temperature),
                     NumberOrZero(c.humidity), VisKm(c.visibility),
                     NumberOrZero(c.uvIndex))

\* mutant of calculateGravelScoreFromWeather: the wind penalty is halved
\* (x 0.5) instead of raised by half (x 1.5)
calculateGravelScoreFromWeather_HalfWind(c) ==
  LET windKmh == kph(c.windSpeed)
      tempC == NumberOrZero(c.temperature)
      rh == NumberOrZero(c.humidity)
      visKm == VisKm(c.visibility)
      uv == NumberOrZero(c.uvIndex)
      windPenalty == WindStep(windKmh) * 50
      tempPenalty == OffroadTempPenalty(tempC)
      humidityPenalty == HumidityPenalty(rh)
      visibilityPenalty == VisibilityPenalty(visKm)
      uvPenalty == UvPenalty(uv)
      t1 == 1000 - windPenalty
      t2 == t1 - tempPenalty * 100
      t3 == HumidityCeiling(t2 - humidityPenalty * 100, rh, 350)
      t4 == t3 - visibilityPenalty * 100
      t5 == t4 - uvPenalty
      totalScore == HeatCap(t5, tempC)
      finalScore == FinalScore(totalScore)
  IN  ScoreResult(finalScore, ScoreMessage(GravelMessages, finalScore, uv),
                  windPenalty, tempPenalty, humidityPenalty, visibilityPenalty,
                  uvPenalty)

\* gravel: wind penalty x 1.5, harsher heat penalties, humidity cap 3.5
calculateGravelScoreFromWeather(c) ==
  LET windKmh == kph(c.windSpeed)
      tempC == NumberOrZero(c.temperature)
      rh == NumberOrZero(c.humidity)
      visKm == VisKm(c.visibility)
      uv == NumberOrZero(c.uvIndex)
      windPenalty == WindStep(windKmh) * 150
      tempPenalty == OffroadTempPenalty(tempC)
      humidityPenalty == HumidityPenalty(rh)
      visibilityPenalty == VisibilityPenalty(visKm)
      uvPenalty == UvPenalty(uv)
      t1 == 1000 - windPenalty
      t2 == t1 - tempPenalty * 100
      t3 == HumidityCeiling(t2 - humidityPenalty * 100, rh, 350)
      t4 == t3 - visibilityPenalty * 100
      t5 == t4 - uvPenalty
      totalScore == HeatCap(t5, tempC)
      finalScore == FinalScore(totalScore)
  IN  ScoreResult(finalScore, ScoreMessage(GravelMessages, finalScore, uv),
                  windPenalty, tempPenalty, humidityPenalty, visibilityPenalty,
                  uvPenalty)

\* MTB: plain wind step, harsher heat penalties, humidity cap 3.5
calculateMTBScoreFromWeather(c) ==
  LET windKmh == kph(c.windSpeed)
      tempC == NumberOrZero(c.temperature)
      rh == NumberOrZero(c.humidity)
      visKm == VisKm(c.visibility)
      uv == NumberOrZero(c.uvIndex)
      windPenalty == WindStep(windKmh) * 100
      tempPenalty == OffroadTempPenalty(tempC)
      humidityPenalty == HumidityPenalty(rh)
      visibilityPenalty == VisibilityPenalty(visKm)
      uvPenalty == UvPenalty(uv)
      t1 == 1000 - windPenalty
      t2 == t1 - tempPenalty * 100
      t3 == HumidityCeiling(t2 - humidityPenalty * 100, rh, 350)
      t4 == t3 - visibilityPenalty * 100
      t5 == t4 - uvPenalty
      totalScore == HeatCap(t5, tempC)
      finalScore == FinalScore(totalScore)
  IN  ScoreResult(finalScore, ScoreMessage(MTBMessages, finalScore, uv),
                  windPenalty, tempPenalty, humidityPenalty, visibilityPenalty,
                  uvPenalty)

\* the three 1-10 results for one reading
ScoreAll(c, rel) ==
  [road |-> calculateBikeScoreFromWeather(c, rel),
   gravel |-> calculateGravelScoreFromWeather(c),
   mtb |-> calculateMTBScoreFromWeather(c)]

(***************************************************************************)
(* Alert generator                                                         *)
(***************************************************************************)

WindAlert(severity) ==
  [type |-> "wind", severity |-> severity,
   message |-> "Strong winds may affect bike handling."]
VisibilityAlert ==
  [type |-> "visibility", severity |-> "moderate",
   message |-> "Low visibility. Use lights and high-visibility gear."]
WetAlert ==
  [type |-> "wet", severity |-> "moderate",
   message |-> "Wet conditions possible. Increase braking distance."]
ColdAlert ==
  [type |-> "cold", severity |-> "high",
   message |-> "Freezing temperatures. Risk of ice."]
HeatAlert ==
  [type |-> "heat", severity |-> "high",
   message |-> "High heat. Hydrate and avoid peak sun hours."]

\* mutant of IsWet: the probability threshold is >= 60 instead of > 60
IsWet_From60(c) ==
  Coalesce(c.precipitation, 0) > 0 \/ Coalesce(c.precipitationProbability, 0) >= 60

\* (c.precipitation ?? 0) > 0 || (c.precipitationProbability ?? 0) > 60
IsWet(c) ==
  Coalesce(c.precipitation, 0) > 0 \/ Coalesce(c.precipitationProbability, 0) > 60

generateSafetyAlerts(c) ==
  LET wind == kph(c.windSpeed)
      t == Coalesce(c.temperature, 150)
      a1 == IF wind >= 2500
            THEN <<WindAlert(IF wind >= 4000 THEN "high" ELSE "moderate")>>
            ELSE <<>>
      a2 == IF Coalesce(c.visibility, 10000) < 2000 THEN <<VisibilityAlert>> ELSE <<>>
      a3 == IF IsWet(c) THEN <<WetAlert>> ELSE <<>>
      a4 == IF t <= 0 THEN <<ColdAlert>> ELSE <<>>
      a5 == IF t >= 350 THEN <<HeatAlert>> ELSE <<>>
  IN  a1 \o a2 \o a3 \o a4 \o a5

(***************************************************************************)
(* Global environmental penalties on a 0-100 score                         *)
(* (insights.js applyEnvironmentalPenalties).  Scores are whole points     *)
(* here; the penalties are computed in tenths of a point.                  *)
(***************************************************************************)

\* NaN: what Number() makes of undefined or of text that is no number
NaN == -2000000

\* Number(v): null becomes 0, undefined becomes NaN
ToNumber(v) == IF v = Null THEN 0 ELSE v

\* Math.min(60, 15 + (t - 30) * 3) in tenths of a point, t in tenths
HeatPenalty(t) == Min(600, 150 + (t - 300) * 3)

\* Math.min(50, 10 + (10 - t) * 2) in tenths of a point
ColdPenalty(t) == Min(500, 100 + (100 - t) * 2)

applyEnvironmentalPenalties(base, c) ==
  LET t == ToNumber(c.temperature)
      rh == ToNumber(c.humidity)
      score0 == base * 10
      score1 == IF t # NaN /\ t > 300
                THEN LET heated == score0 - HeatPenalty(t)
                     IN  IF rh # NaN /\ rh >= 70
                         THEN Min(heated - 100, 350)
                         ELSE heated
                ELSE score0
      score2 == IF t # NaN /\ t < 100 THEN score1 - ColdPenalty(t) ELSE score1
  IN  Min(100, Max(0, MathRound(score2, 10)))

\* no score has been handed in
PenaltyIdle ==
  /\ baseScore = 0
  /\ penalized = 0

(***************************************************************************)
(* Forecast parsing (weather.js parseWeatherResponse) and the recent       *)
(* precipitation read from it (insights.js).  Times are minutes.  An entry *)
(* of hourly.time is the ISO text of a full hour, held as [hour |-> n];    *)
(* a JSON object is a record that has the keys present in it.  Array       *)
(* indexes are the code's, counted from 0.  Precipitation is in tenths of  *)
(* a millimetre.  The daily part of the forecast is left out.              *)
(***************************************************************************)

\* hourly.slice(nearestIndex, nearestIndex + 24)
SliceHours == 24

\* new Date(iso).getTime() of an entry of hourly.time
DateOf(iso) == iso.hour * 60

\* Math.abs
Abs(x) == IF x < 0 THEN -x ELSE x

\* Infinity, the initial bestDelta
Infinity == 1000000000

\* the for loop of findNearestHourIndex from index i on
RECURSIVE NearestLoop(_, _, _, _, _)
NearestLoop(times, now, i, bestIdx, bestDelta) ==
  IF i >= Len(times) THEN bestIdx
  ELSE LET delta == Abs(DateOf(times[i + 1]) - now)
       IN  IF delta < bestDelta
           THEN NearestLoop(times, now, i + 1, i, delta)
           ELSE NearestLoop(times, now, i + 1, bestIdx, bestDelta)

\* mutant of findNearestHourIndex: the nearest hour that has begun, i.e. the
\* last entry not after now
findNearestHourIndex_LastStarted(times, now) ==
  LET started == {i \in 0..(Len(times) - 1) : DateOf(times[i + 1]) <= now}
  IN  IF started = {} THEN 0
      ELSE CHOOSE i \in started : \A j \in started : j <= i

findNearestHourIndex(times, now) ==
  IF Len(times) = 0 THEN 0 ELSE NearestLoop(times, now, 0, 0, Infinity)

\* data.hourly?.time || []
HourlyTimes(data) ==
  IF "hourly" \in DOMAIN data /\ "time" \in DOMAIN data.hourly
  THEN data.hourly.time
  ELSE <<>>

\* data.hourly?.[key]?.[idx] ?? null
OptionalAt(data, key, idx) ==
  IF /\ "hourly" \in DOMAIN data
     /\ key \in DOMAIN data.hourly
     /\ idx < Len(data.hourly[key])
  THEN data.hourly[key][idx + 1]
  ELSE Null

\* getSafe(data.hourly?.[key], idx)
getSafe(data, key, idx) ==
  IF "hourly" \in DOMAIN data /\ key \in DOMAIN data.hourly
  THEN IF idx < Len(data.hourly[key]) THEN data.hourly[key][idx + 1] ELSE Null
  ELSE Null

\* one element of the hourly list parseWeatherResponse builds
HourlyEntry(data, iso, idx) ==
  [time |-> iso,
   temperature |-> getSafe(data, "temperature_2m", idx),
   humidity |-> getSafe(data, "relativehumidity_2m", idx),
   precipitation |-> getSafe(data, "precipitation", idx),
   precipitationProbability |-> getSafe(data, "precipitation_probability", idx),
   weatherCode |-> getSafe(data, "weathercode", idx),
   windSpeed |-> getSafe(data, "windspeed_10m", idx),
   windDirection |-> getSafe(data, "winddirection_10m", idx),
   visibility |-> getSafe(data, "visibility", idx),
   cloudCover |-> getSafe(data, "cloudcover", idx),
   uvIndex |-> getSafe(data, "uv_index", idx)]

\* Array.prototype.slice(start, end) for 0 <= start <= end
Slice(list, start, end) == SubSeq(list, start + 1, Min(end, Len(list)))

parseWeatherResponse(data, now) ==
  LET times == HourlyTimes(data)
      nearestIndex == findNearestHourIndex(times, now)
      hourly == [i \in 1..Len(times) |-> HourlyEntry(data, times[i], i - 1)]
  IN  [current |->
         [temperature |-> OptionalAt(data, "temperature_2m", nearestIndex),
          humidity |-> OptionalAt(data, "relativehumidity_2m", nearestIndex),
          windSpeed |-> OptionalAt(data, "windspeed_10m", nearestIndex),
          windDirection |-> OptionalAt(data, "winddirection_10m", nearestIndex),
          precipitation |-> OptionalAt(data, "precipitation", nearestIndex),
          precipitationProbability |->
            OptionalAt(data, "precipitation_probability", nearestIndex),
          weatherCode |-> OptionalAt(data, "weathercode", nearestIndex),
          uvIndex |-> OptionalAt(data, "uv_index", nearestIndex),
          visibility |-> OptionalAt(data, "visibility", nearestIndex),
          cloudCover |-> OptionalAt(data, "cloudcover", nearestIndex)],
       hourly |-> hourly,
       nearestIndex |-> nearestIndex,
       next24FromNearest |-> Slice(hourly, nearestIndex, nearestIndex + SliceHours)]

\* what the reducer of estimateRecentPrecipSum adds to the sum for entry h
PrecipAdded(h, cutoff, now) ==
  LET t == DateOf(h.time)
      p == ToNumber(Coalesce(h.precipitation, 0))
  IN  IF t >= cutoff /\ t <= now /\ p # NaN THEN p ELSE 0

\* hourly.reduce over the entries lo..hi, the additions grouped by halves
RECURSIVE PrecipReduce(_, _, _, _, _)
PrecipReduce(hourly, lo, hi, cutoff, now) ==
  IF lo > hi THEN 0
  ELSE IF lo = hi THEN PrecipAdded(hourly[lo], cutoff, now)
  ELSE LET mid == (lo + hi) \div 2
       IN  PrecipReduce(hourly, lo, mid, cutoff, now)
           + PrecipReduce(hourly, mid + 1, hi, cutoff, now)

\* mutant of estimateRecentPrecipSum: entries after now are not left out
estimateRecentPrecipSum_NoUpperBound(weatherData, hoursBack, now) ==
  PrecipReduce(weatherData.hourly, 1, Len(weatherData.hourly),
               now - hoursBack * 60, Infinity)

\* estimateRecentPrecipSum(weatherData, hoursBack) called when new Date() is now
estimateRecentPrecipSum(weatherData, hoursBack, now) ==
  PrecipReduce(weatherData.hourly, 1, Len(weatherData.hourly),
               now - hoursBack * 60, now)

\* calculateGravelConditions: mudFactor from the sum of the last 48 hours
MudFactor(last48h) ==
  IF last48h >= 200 THEN 3
  ELSE IF last48h >= 100 THEN 2
  ELSE IF last48h >= 30 THEN 1
  ELSE 0

\* calculateMTBTrailReadiness: the points taken off for the last 72 hours
TrailPenalty(last72h) ==
  IF last72h > 300 THEN 35
  ELSE IF last72h > 150 THEN 20
  ELSE IF last72h > 50 THEN 10
  ELSE 0

\* the precipitation part of calculateGravelConditions(weatherData) and of
\* calculateMTBTrailReadiness(weatherData), called when new Date() is now
TrailConditions(weatherData, now) ==
  LET last48h == estimateRecentPrecipSum(weatherData, 48, now)
      last72h == estimateRecentPrecipSum(weatherData, 72, now)
  IN  [assessed |-> TRUE,
       last48h |-> last48h,
       mudFactor |-> MudFactor(last48h),
       last72h |-> last72h,
       trailPenalty |-> TrailPenalty(last72h)]

\* a response without hourly data
NoHourlyData == [timezone |-> "GMT"]

\* nothing has been assessed
NoConditions ==
  [assessed |-> FALSE, last48h |-> 0, mudFactor |-> 0, last72h |-> 0,
   trailPenalty |-> 0]

\* no forecast has been received
ForecastIdle ==
  /\ response = NoHourlyData
  /\ nowMs = 0
  /\ parsed = parseWeatherResponse(NoHourlyData, 0)
  /\ conditions = NoConditions

(***************************************************************************)
(* Recents store (location.js).  A location is [id, name, timestamp]; its  *)
(* latitude, longitude, region and country are carried along unread.  A    *)
(* name is the sequence of its characters.                                 *)
(***************************************************************************)

MAX_RECENTS == 15

\* number of distinct first-time locations a run may save
MaxFresh == 16
\* number of events other than first-time saves: re-saves, alias saves,
\* clears and clock ticks
MaxExtras == 1

\* toLowerCase on one character
LowerChar(ch) ==
  CASE ch = "B" -> "b"
    [] ch = "Z" -> "z"
    [] OTHER -> ch

RECURSIVE TrimStart(_)
TrimStart(name) ==
  IF name # <<>> /\ Head(name) = " " THEN TrimStart(Tail(name)) ELSE name

RECURSIVE TrimEnd(_)
TrimEnd(name) ==
  IF name # <<>> /\ name[Len(name)] = " "
  THEN TrimEnd(SubSeq(name, 1, Len(name) - 1))
  ELSE name

\* mutant of normalizeName: the name is trimmed but not lower-cased
normalizeName_CaseSensitive(name) == TrimEnd(TrimStart(name))

\* String(name || '').trim().toLowerCase()
normalizeName(name) ==
  LET trimmed == TrimEnd(TrimStart(name))
  IN  [i \in 1..Len(trimmed) |-> LowerChar(trimmed[i])]

\* the item under a key: absent ("none"), the JSON text of an array
\* ("array") or of an object ("object"), text that is no JSON ("malformed"),
\* or a store whose getItem throws ("throws")
NoItem == [kind |-> "none", value |-> <<>>]

\* localStorage.getItem(key) or JSON.parse(raw) throws
ReadThrows(store) == store.kind \in {"malformed", "throws"}

\* JSON.stringify of an array of locations
JSONstringify(arr) == [kind |-> "array", value |-> arr]

\* JSON.parse of a stored item
JSONparse(raw) == raw.value

\* Array.isArray of a parsed item
IsArray(raw) == raw.kind = "array"

\* insert into a list sorted by ascending timestamp, after its equals
RECURSIVE InsertOldestFirst(_, _)
InsertOldestFirst(item, sorted) ==
  IF sorted = <<>> THEN <<item>>
  ELSE IF item.timestamp < Head(sorted).timestamp THEN <<item>> \o sorted
  ELSE <<Head(sorted)>> \o InsertOldestFirst(item, Tail(sorted))

\* mutant of SortNewestFirst: the comparator is a - b, oldest first
RECURSIVE SortNewestFirst_Ascending(_)
SortNewestFirst_Ascending(arr) ==
  IF arr = <<>> THEN <<>>
  ELSE InsertOldestFirst(arr[Len(arr)],
                         SortNewestFirst_Ascending(SubSeq(arr, 1, Len(arr) - 1)))

\* insert into a list sorted by descending timestamp, after its equals
RECURSIVE InsertByTimestamp(_, _)
InsertByTimestamp(item, sorted) ==
  IF sorted = <<>> THEN <<item>>
  ELSE IF item.timestamp > Head(sorted).timestamp THEN <<item>> \o sorted
  ELSE <<Head(sorted)>> \o InsertByTimestamp(item, Tail(sorted))

\* [...arr].sort((a, b) => b.timestamp - a.timestamp): stable, newest first
RECURSIVE SortNewestFirst(_)
SortNewestFirst(arr) ==
  IF arr = <<>> THEN <<>>
  ELSE InsertByTimestamp(arr[Len(arr)],
                         SortNewestFirst(SubSeq(arr, 1, Len(arr) - 1)))

\* the loop of getRecentLocationsInternal: first entry of each normalized
\* name, stopping once MAX_RECENTS entries are kept
RECURSIVE UniqueByName(_, _, _)
UniqueByName(sorted, seen, unique) ==
  IF sorted = <<>> THEN unique
  ELSE
    LET item == Head(sorted)
        key == normalizeName(item.name)
        kept == IF key \in seen THEN unique ELSE Append(unique, item)
    IN  IF Len(kept) >= MAX_RECENTS THEN kept
        ELSE UniqueByName(Tail(sorted), seen \cup {key}, kept)

\* its value when it does not throw (see ReadThrows)
getRecentLocationsInternal(store) ==
  IF store.kind = "none" THEN <<>>
  ELSE IF ~IsArray(store) THEN <<>>
  ELSE UniqueByName(SortNewestFirst(JSONparse(store)), {}, <<>>)

\* try { return getRecentLocationsInternal(); } catch (e) { return []; }
getRecentLocations(store) ==
  IF ReadThrows(store) THEN <<>> ELSE getRecentLocationsInternal(store)

\* .slice(0, MAX_RECENTS)
SliceToMax(list) == SubSeq(list, 1, Min(Len(list), MAX_RECENTS))

\* the entries saveRecentLocation keeps: neither the id nor the normalized
\* name of the saved location
WithoutDup(recents, location) ==
  LET targetName == normalizeName(location.name)
  IN  SelectSeq(recents, LAMBDA r : r.id # location.id
                                    /\ normalizeName(r.name) # targetName)

\* the value saveRecentLocation writes under RECENTS_KEY
UpdatedRecents(store, location, now) ==
  SliceToMax(<<[location EXCEPT !.timestamp = now]>>
             \o WithoutDup(getRecentLocationsInternal(store), location))

Letters ==
  <<"a", "b", "c", "d", "e", "f", "g", "h", "i", "j",
    "k", "l", "m", "n", "o", "p", "q", "r", "s", "t">>

\* the i-th first-time location: its own id and its own name
FreshLocation(i) == [id |-> i, name |-> <<Letters[i]>>, timestamp |-> 0]

\* locations that meet earlier ones: location 1 again; the id of location 1
\* under a new name; the name of location 2 in another spelling under a new
\* id; the id of location 1 with the name of location 2
AliasLocations ==
  {[id |-> 1, name |-> <<"a">>, timestamp |-> 0],
   [id |-> 1, name |-> <<"Z">>, timestamp |-> 0],
   [id |-> 102, name |-> <<" ", "B", " ">>, timestamp |-> 0],
   [id |-> 1, name |-> <<"B", " ">>, timestamp |-> 0]}

RecentsInit ==
  /\ localStorage = NoItem
  /\ clock = 0
  /\ saveLog = <<>>
  /\ freshSaved = 0
  /\ extras = 0

\* saveRecentLocation(location), Date.now() being the clock; when
\* getRecentLocationsInternal throws, the catch block is entered before
\* setItem is reached
saveRecentLocation(location) ==
  /\ localStorage' = IF ReadThrows(localStorage) THEN localStorage
                     ELSE JSONstringify(UpdatedRecents(localStorage, location, clock))
  /\ saveLog' = Append(saveLog, location)
  /\ UNCHANGED clock

SaveFresh ==
  /\ freshSaved < MaxFresh
  /\ saveRecentLocation(FreshLocation(freshSaved + 1))
  /\ freshSaved' = freshSaved + 1
  /\ UNCHANGED <<extras, insightVars, fetchVars, appVars, penaltyVars, forecastVars>>

SaveAlias ==
  /\ extras < MaxExtras
  /\ \E location \in AliasLocations : saveRecentLocation(location)
  /\ extras' = extras + 1
  /\ UNCHANGED <<freshSaved, insightVars, fetchVars, appVars, penaltyVars, forecastVars>>

\* clearRecentLocations(): localStorage.removeItem(RECENTS_KEY)
clearRecentLocations ==
  /\ extras < MaxExtras
  /\ localStorage' = NoItem
  /\ extras' = extras + 1
  /\ UNCHANGED <<clock, saveLog, freshSaved, insightVars, fetchVars, appVars, penaltyVars, forecastVars>>

\* a millisecond passes
Tick ==
  /\ extras < MaxExtras
  /\ clock' = clock + 1
  /\ extras' = extras + 1
  /\ UNCHANGED <<localStorage, saveLog, freshSaved, insightVars, fetchVars, appVars, penaltyVars, forecastVars>>

(***************************************************************************)
(* Forecast fetch (weather.js fetchWeatherData).  One call is followed     *)
(* through its awaits: the fetch, the body of an error response, the JSON  *)
(* of a good one.                                                          *)
(***************************************************************************)

\* mutant of Candidates: the reduced set is tried first
Candidates_ReducedFirst == <<"reduced", "full">>

\* hourly sets tried in order: HOURLY_PARAMS, then the reduced set
Candidates == <<"full", "reduced">>

NoError == "none"

\* what the network and the server can do to one attempt
NetworkErrors == {"TypeError: Failed to fetch"}
ErrorStatuses == {400, 500}
Bodies == {"", "Bad parameter"}

\* new Error(`Weather API error ${response.status}: ${body}`)
HttpError(status, body) == <<"Weather API error", status, body>>

\* the coordinates a call is made with (latitude, longitude in 1e-4 degrees)
Coordinates ==
  {[latitude |-> 377749, longitude |-> -1224194],
   [latitude |-> 488566, longitude |-> 23522]}

NoArgs == [latitude |-> 0, longitude |-> 0]

\* formatWeatherData(parseWeatherResponse(data)) of a forecast answering the
\* request: the forecast of these coordinates with the hourly variables asked
Forecast(args, hourly) ==
  [latitude |-> args.latitude, longitude |-> args.longitude, hourly |-> hourly]

NoReturn == [kind |-> "none", value |-> <<>>]

FetchInit ==
  /\ fetchPc = "idle"
  /\ fetchArgs = NoArgs
  /\ candidateIdx = 0
  /\ lastError = <<NoError>>
  /\ requestLog = <<>>
  /\ fetchReturn = NoReturn

\* fetch(buildUrl(h)): the request goes out
Request(args, h) ==
  [latitude |-> args.latitude, longitude |-> args.longitude,
   hourly |-> Candidates[h], state |-> "pending", error |-> <<NoError>>]

\* the state and error of the latest request set
Settle(log, outcome, error) ==
  [log EXCEPT ![Len(log)].state = outcome, ![Len(log)].error = error]

\* throw lastError || new Error('Weather API error')
ThrownError(err) == IF err = <<NoError>> THEN <<"Weather API error">> ELSE err

\* the catch block and what follows it: remember the error, then try the next
\* candidate, or leave the loop and throw
CatchAndContinue(e) ==
  /\ lastError' = e
  /\ IF candidateIdx < Len(Candidates)
     THEN /\ candidateIdx' = candidateIdx + 1
          /\ requestLog' = Append(Settle(requestLog, "failed", e),
                                  Request(fetchArgs, candidateIdx + 1))
          /\ fetchPc' = "awaitFetch"
          /\ UNCHANGED fetchReturn
     ELSE /\ requestLog' = Settle(requestLog, "failed", e)
          /\ fetchPc' = "thrown"
          /\ fetchReturn' = [kind |-> "error", value |-> ThrownError(e)]
          /\ UNCHANGED candidateIdx
  /\ UNCHANGED <<fetchArgs, insightVars, recentsVars, appVars, penaltyVars, forecastVars>>

\* fetchWeatherData(latitude, longitude) is called: runs up to the first await
CallFetchWeatherData ==
  /\ fetchPc \in {"idle", "returned", "thrown"}
  /\ \E args \in Coordinates :
       /\ fetchArgs' = args
       /\ requestLog' = <<Request(args, 1)>>
  /\ candidateIdx' = 1
  /\ lastError' = <<NoError>>
  /\ fetchReturn' = NoReturn
  /\ fetchPc' = "awaitFetch"
  /\ UNCHANGED <<insightVars, recentsVars, appVars, penaltyVars, forecastVars>>

\* await fetch(url) rejects: network failure
FetchRejects ==
  /\ fetchPc = "awaitFetch"
  /\ \E e \in NetworkErrors : CatchAndContinue(<<e>>)

\* await fetch(url) resolves with a response that is not ok
FetchRespondsNotOk ==
  /\ fetchPc = "awaitFetch"
  /\ \E status \in ErrorStatuses :
       requestLog' = Settle(requestLog, "responded", <<status>>)
  /\ fetchPc' = "awaitText"
  /\ UNCHANGED <<fetchArgs, candidateIdx, lastError, fetchReturn,
                 insightVars, recentsVars, appVars, penaltyVars, forecastVars>>

\* await safeReadText(response) resolves; the HTTP error is thrown and caught
ErrorBodyRead ==
  /\ fetchPc = "awaitText"
  /\ \E body \in Bodies :
       CatchAndContinue(HttpError(requestLog[Len(requestLog)].error[1], body))

\* await fetch(url) resolves with an ok response
FetchRespondsOk ==
  /\ fetchPc = "awaitFetch"
  /\ requestLog' = Settle(requestLog, "responded", <<NoError>>)
  /\ fetchPc' = "awaitJson"
  /\ UNCHANGED <<fetchArgs, candidateIdx, lastError, fetchReturn,
                 insightVars, recentsVars, appVars, penaltyVars, forecastVars>>

\* await response.json() rejects: the body is no JSON
JsonRejects ==
  /\ fetchPc = "awaitJson"
  /\ CatchAndContinue(<<"SyntaxError: Unexpected token">>)

\* await response.json() resolves with null: parseWeatherResponse throws on
\* data.hourly, inside the try
JsonIsNull ==
  /\ fetchPc = "awaitJson"
  /\ CatchAndContinue(<<"TypeError: Cannot read properties of null">>)

\* await response.json() resolves with a forecast: parsed, formatted, returned
JsonParsed ==
  /\ fetchPc = "awaitJson"
  /\ requestLog' = Settle(requestLog, "ok", <<NoError>>)
  /\ fetchReturn' = [kind |-> "value",
                     value |-> Forecast(fetchArgs, Candidates[candidateIdx])]
  /\ fetchPc' = "returned"
  /\ UNCHANGED <<fetchArgs, candidateIdx, lastError, insightVars, recentsVars, appVars, penaltyVars, forecastVars>>

(***************************************************************************)
(* The page (app.js): state, the toast, the location indicator, the        *)
(* handlers and the loadWeather calls.  A location is [id, name, latitude, *)
(* longitude, region]; country is carried like region.  Coordinates are in *)
(* 1e-4 degrees.  Each async function is followed from await to await; the *)
(* code between two awaits is one step.                                    *)
(***************************************************************************)

\* number of loadWeather calls a run may make
MaxLoads == 2
\* number of clicks on use-geolocation a run may make
MaxGeoClicks == 1

\* `${latitude},${longitude}`
CoordId(latitude, longitude) == <<"coords", latitude, longitude>>

\* String(r.id) of a geocoding result
GeonameId(n) == <<"geoname", n, 0>>

\* a location object without id
NoId == <<"", 0, 0>>

\* the default demo location of the DOMContentLoaded handler
DefaultLocation ==
  [id |-> NoId, name |-> <<"s", "f">>, latitude |-> 377749,
   longitude |-> -1224194, region |-> "CA"]

\* what navigator.geolocation reports
Position == [latitude |-> 488566, longitude |-> 23522]

\* { name: 'Current location', latitude, longitude, region: '', ... }
CurrentLocationLabel(latitude, longitude) ==
  [id |-> NoId, name |-> <<"c", "l">>, latitude |-> latitude,
   longitude |-> longitude, region |-> ""]

\* the object reverseGeocode returns when the service names the place
ReversePlace(latitude, longitude) ==
  [id |-> CoordId(latitude, longitude), name |-> <<"p">>,
   latitude |-> latitude, longitude |-> longitude, region |-> "IDF"]

\* the places the geocoding service knows for a query, as searchCities maps
\* them
Cities ==
  <<[id |-> GeonameId(1), name |-> <<"B">>, latitude |-> 525200,
     longitude |-> 134050, region |-> "BE"],
    [id |-> GeonameId(2), name |-> <<"b", " ">>, latitude |-> 469480,
     longitude |-> 74474, region |-> ""]>>

\* `${location.name}${location.region ? ', ' + location.region : ''}...`
\* after trimLocationText
IndicatorText(location) ==
  IF location.region # "" THEN <<location.name, location.region>>
  ELSE <<location.name>>

NoLocation == [id |-> NoId, name |-> <<>>, latitude |-> Null,
               longitude |-> Null, region |-> ""]

\* state.weather = null
NoWeather ==
  [request |-> 0, hourly |-> "",
   current |-> [windSpeed |-> Null, temperature |-> Null, humidity |-> Null,
                visibility |-> Null, uvIndex |-> Null, precipitation |-> Null,
                precipitationProbability |-> Null]]

\* the readings the forecast service answers with
ServedReadings ==
  {[windSpeed |-> 2496, temperature |-> 351, humidity |-> 90,
    visibility |-> 1500, uvIndex |-> 80, precipitation |-> 0,
    precipitationProbability |-> 70],
   [windSpeed |-> 1200, temperature |-> 200, humidity |-> 50,
    visibility |-> 20000, uvIndex |-> 30, precipitation |-> 0,
    precipitationProbability |-> 10]}

\* parseWeatherResponse: a variable that was not requested is null; the
\* reduced hourly set has neither uv_index nor visibility
ParsedCurrent(reading, hourly) ==
  IF hourly = "reduced"
  THEN [reading EXCEPT !.uvIndex = Null, !.visibility = Null]
  ELSE reading

\* the weather object fetchWeatherData returns to the i-th loadWeather call
\* (request is history: which call the forecast answers)
WeatherOf(i, reading, hourly) ==
  [request |-> i, hourly |-> hourly, current |-> ParsedCurrent(reading, hourly)]

\* the item under LAST_KEY: absent, the JSON text of an object, or other text
LastObject(payload) == [kind |-> "object", value |-> payload]

\* text that JSON.parse rejects
MalformedItem == [kind |-> "malformed", value |-> <<>>]

\* the JSON text of an object that is no array
NonArrayItem == [kind |-> "object", value |-> <<>>]

\* a store whose getItem throws
ThrowingItem == [kind |-> "throws", value |-> <<>>]

\* the payload setLastLocation builds
LastPayload(location, now) ==
  [id |-> IF location.id # NoId THEN location.id
          ELSE CoordId(location.latitude, location.longitude),
   name |-> location.name,
   latitude |-> location.latitude,
   longitude |-> location.longitude,
   region |-> location.region,
   timestamp |-> now]

\* setLastLocation(location): the item it stores
setLastLocation(location, now) == LastObject(LastPayload(location, now))

\* mutant of HasLastLocation: the typeof checks are inverted, so that an
\* object with numeric latitude and longitude is rejected
HasLastLocation_InvertedCheck(item) ==
  /\ item.kind = "object"
  /\ ~(item.value.latitude # Null /\ item.value.longitude # Null)

\* getLastLocation(): the stored object when it parses and its latitude and
\* longitude are numbers, else null
HasLastLocation(item) ==
  /\ ~ReadThrows(item)
  /\ item.kind = "object"
  /\ item.value.latitude # Null
  /\ item.value.longitude # Null

getLastLocation(item) ==
  [id |-> item.value.id, name |-> item.value.name,
   latitude |-> item.value.latitude, longitude |-> item.value.longitude,
   region |-> item.value.region]

\* the location a stored recent becomes when its button is clicked
RecentAsLocation(r) ==
  [id |-> r.id, name |-> r.name, latitude |-> r.latitude,
   longitude |-> r.longitude, region |-> r.region]

\* the object loadWeather hands to saveRecentLocation
RecentEntry(location, now) ==
  [id |-> CoordId(location.latitude, location.longitude),
   name |-> location.name, latitude |-> location.latitude,
   longitude |-> location.longitude, region |-> location.region,
   timestamp |-> now]

\* toast texts
LoadingText == "Loading weather..."
LoadFailedText == "Failed to load weather. Please try again."
GeoFailedText == "Could not access location. Please enable permissions."

\* showToast(message)
showToast(message) == [text |-> message, hidden |-> FALSE]

\* hideToast(): the text stays, the element is hidden
hideToast(t) == [t EXCEPT !.hidden = TRUE]

\* insights container before the first render
NoView == [rendered |-> FALSE, activity |-> "", header |-> 0, tenInt |-> 0,
           detail |-> <<>>, alerts |-> <<>>, temperatureTip |-> ""]

\* the temperature recommendation of the Biking Conditions tile:
\* Number(c.temperature) against 55 and 75 in F mode, 13 and 24 in C mode
TemperatureTip(units, c) ==
  LET t == ToNumber(c.temperature)
      low == IF units = "F" THEN 550 ELSE 130
      high == IF units = "F" THEN 750 ELSE 240
  IN  IF t >= low /\ t <= high THEN "Perfect temperature for long rides"
      ELSE IF t < low THEN "Layer up for cooler temps"
      ELSE "Hydrate and avoid peak sun"

\* clamp(value, min, max)
clamp(value, min, max) == Min(max, Max(min, value))

\* the 1-10 result renderInsights asks for: the one of state.activity
ScoreDetail(activity, weather) ==
  CASE activity = "road" -> calculateBikeScoreFromWeather(weather.current, "crosswind")
    [] activity = "gravel" -> calculateGravelScoreFromWeather(weather.current)
    [] OTHER -> calculateMTBScoreFromWeather(weather.current)

\* mutant of renderInsights: in F mode the temperature is converted with cToF
\* before it is scored and checked for alerts
renderInsights_ScoresDisplayUnits(st, view) ==
  IF st.weather.request = 0 THEN view
  ELSE
    LET c == st.weather.current
        shown == IF st.units = "F" /\ c.temperature # Null
                 THEN [c EXCEPT !.temperature = (c.temperature * 9) \div 5 + 320]
                 ELSE c
        weather == [st.weather EXCEPT !.current = shown]
        detail == ScoreDetail(st.activity, weather)
        score == clamp(MathRound(detail.score, 10), 0, 100)
    IN  [rendered |-> TRUE,
         activity |-> st.activity,
         header |-> score,
         tenInt |-> clamp(MathRound(score, 10), 1, 10),
         detail |-> <<detail>>,
         alerts |-> generateSafetyAlerts(shown),
         temperatureTip |-> TemperatureTip(st.units, c)]

\* renderInsights(): returns at once while state.weather is null; else the
\* alert list, the header value 0-100, the n/10 of the tile, the 1-10
\* result with its breakdown and the temperature recommendation
renderInsights(st, view) ==
  IF st.weather.request = 0 THEN view
  ELSE
    LET detail == ScoreDetail(st.activity, st.weather)
        score == clamp(MathRound(detail.score, 10), 0, 100)
    IN  [rendered |-> TRUE,
         activity |-> st.activity,
         header |-> score,
         tenInt |-> clamp(MathRound(score, 10), 1, 10),
         detail |-> <<detail>>,
         alerts |-> generateSafetyAlerts(st.weather.current),
         temperatureTip |-> TemperatureTip(st.units, st.weather.current)]

\* what a loadWeather call remembers (before is history: the values the
\* call found)
LoadCall(location, caller) ==
  [location |-> location, pc |-> "awaitFetch", candidateIdx |-> 1,
   requests |-> 1, caller |-> caller, finished |-> 0,
   before |-> [weather |-> state.weather, recents |-> localStorage,
               last |-> lastLocationItem]]

\* loadWeather(location) up to its await: fetchWeatherData has sent the
\* request for the full hourly set
loadWeather(location, caller) ==
  /\ state' = [state EXCEPT !.location = location]
  /\ locationIndicator' = IndicatorText(location)
  /\ toast' = showToast(LoadingText)
  /\ loads' = Append(loads, LoadCall(location, caller))

\* loadWeather calls the handlers under way are still going to make
Reserved ==
  (IF startup \in {"notStarted", "awaitGeo", "awaitReverse"} THEN 1 ELSE 0)
  + (IF geoButton \in {"awaitGeo", "awaitReverse"} THEN 1 ELSE 0)

\* clicks on use-geolocation so far
GeoClicks == Cardinality({k \in 1..Len(geoLog) : geoLog[k].origin = "geoButton"})

\* the page is up and the run may take one more loadWeather call
MayLoad == startup # "notStarted" /\ Len(loads) + Reserved < MaxLoads

\* the handler that awaited the call goes on: the DOMContentLoaded handler
\* renders the recents and ends, the click handlers end
CallerResumes(caller) ==
  /\ startup' = IF caller = "startup" THEN "done" ELSE startup
  /\ geoButton' = IF caller = "geoButton" THEN "idle" ELSE geoButton

\* how many calls have ended, plus one
NextFinished ==
  1 + Cardinality({j \in 1..Len(loads) : loads[j].pc # "awaitFetch"})

AppInit ==
  /\ state = [activity |-> "road", location |-> NoLocation,
              weather |-> NoWeather, units |-> "C"]
  /\ toast = [text |-> "", hidden |-> TRUE]
  /\ locationIndicator = <<>>
  /\ loads = <<>>
  /\ startup = "notStarted"
  /\ geoButton = "idle"
  /\ geoLog = <<>>
  /\ insightsView = NoView
  /\ search = [pc |-> "idle", children |-> <<>>, hidden |-> TRUE,
               outcome |-> "none"]

\* the page is not looked at
AppIdle == AppInit /\ lastLocationItem = NoItem

\* DOMContentLoaded with a last location: loadWeather(last)
StartupWithLast ==
  /\ startup = "notStarted"
  /\ HasLastLocation(lastLocationItem)
  /\ loadWeather(getLastLocation(lastLocationItem), "startup")
  /\ startup' = "awaitLoad"
  /\ UNCHANGED <<lastLocationItem, geoButton, geoLog, insightsView, search,
                 insightVars, recentsVars, fetchVars, penaltyVars, forecastVars>>

\* DOMContentLoaded without one: 'Locating...', getCurrentLocation() asks the
\* browser
StartupLocates ==
  /\ startup = "notStarted"
  /\ ~HasLastLocation(lastLocationItem)
  /\ locationIndicator' = <<"Locating...">>
  /\ geoLog' = Append(geoLog, [origin |-> "startup", outcome |-> "pending"])
  /\ startup' = "awaitGeo"
  /\ UNCHANGED <<state, toast, lastLocationItem, loads, geoButton,
                 insightsView, search, insightVars, recentsVars, fetchVars, penaltyVars, forecastVars>>

\* DOMContentLoaded without one, in a browser without geolocation:
\* getCurrentLocation() rejects, the catch block loads the default location
StartupUnsupported ==
  /\ startup = "notStarted"
  /\ ~HasLastLocation(lastLocationItem)
  /\ geoLog' = Append(geoLog, [origin |-> "startup", outcome |-> "unsupported"])
  /\ loadWeather(DefaultLocation, "startup")
  /\ startup' = "awaitLoad"
  /\ UNCHANGED <<lastLocationItem, geoButton, insightsView, search,
                 insightVars, recentsVars, fetchVars, penaltyVars, forecastVars>>

\* the outcome of the pending request of a handler is recorded
SettleGeo(origin, outcome) ==
  [k \in 1..Len(geoLog) |->
     IF geoLog[k].origin = origin /\ geoLog[k].outcome = "pending"
     THEN [geoLog[k] EXCEPT !.outcome = outcome]
     ELSE geoLog[k]]

\* the browser reports a position to the DOMContentLoaded handler:
\* safeReverse sends the reverse geocoding request
StartupGeoResolves ==
  /\ startup = "awaitGeo"
  /\ geoLog' = SettleGeo("startup", "position")
  /\ startup' = "awaitReverse"
  /\ UNCHANGED <<state, toast, locationIndicator, lastLocationItem, loads,
                 geoButton, insightsView, search, insightVars, recentsVars,
                 fetchVars, penaltyVars, forecastVars>>

\* mutant of StartupGeoRejects: the catch block only writes the indicator and
\* does not load the default location
StartupGeoRejects_NoFallback ==
  /\ startup = "awaitGeo"
  /\ \E err \in {"denied", "timeout"} : geoLog' = SettleGeo("startup", err)
  /\ locationIndicator' = <<"Using default location">>
  /\ startup' = "done"
  /\ UNCHANGED <<state, toast, loads, lastLocationItem, geoButton,
                 insightsView, search, insightVars, recentsVars, fetchVars, penaltyVars, forecastVars>>

\* the browser reports an error (denied, unavailable, timeout) to the
\* DOMContentLoaded handler: 'Using default location', loadWeather(default)
StartupGeoRejects ==
  /\ startup = "awaitGeo"
  /\ \E err \in {"denied", "timeout"} : geoLog' = SettleGeo("startup", err)
  /\ loadWeather(DefaultLocation, "startup")
  /\ startup' = "awaitLoad"
  /\ UNCHANGED <<lastLocationItem, geoButton, insightsView, search,
                 insightVars, recentsVars, fetchVars, penaltyVars, forecastVars>>

\* what safeReverse resolves with: the place, or null when the service names
\* none or the request fails
ReverseOutcomes(latitude, longitude) ==
  {ReversePlace(latitude, longitude), CurrentLocationLabel(latitude, longitude)}

\* safeReverse settles in the DOMContentLoaded handler:
\* loadWeather(rev || { name: 'Current location', ... })
StartupReverseSettles ==
  /\ startup = "awaitReverse"
  /\ \E location \in ReverseOutcomes(Position.latitude, Position.longitude) :
       loadWeather(location, "startup")
  /\ startup' = "awaitLoad"
  /\ UNCHANGED <<lastLocationItem, geoButton, geoLog, insightsView, search,
                 insightVars, recentsVars, fetchVars, penaltyVars, forecastVars>>

\* click on use-geolocation: 'Locating...', getCurrentLocation() asks the
\* browser
ClickGeoButton ==
  /\ MayLoad
  /\ GeoClicks < MaxGeoClicks
  /\ geoButton = "idle"
  /\ locationIndicator' = <<"Locating...">>
  /\ geoLog' = Append(geoLog, [origin |-> "geoButton", outcome |-> "pending"])
  /\ geoButton' = "awaitGeo"
  /\ UNCHANGED <<state, toast, lastLocationItem, loads, startup, insightsView,
                 search, insightVars, recentsVars, fetchVars, penaltyVars, forecastVars>>

\* the catch block of the click handler: a toast, nothing else
GeoButtonCatch ==
  /\ toast' = showToast(GeoFailedText)
  /\ geoButton' = "idle"
  /\ UNCHANGED <<state, lastLocationItem, loads, startup, insightsView,
                 search, insightVars, recentsVars, fetchVars, penaltyVars, forecastVars>>

\* click on use-geolocation in a browser without geolocation
ClickGeoButtonUnsupported ==
  /\ MayLoad
  /\ GeoClicks < MaxGeoClicks
  /\ geoButton = "idle"
  /\ locationIndicator' = <<"Locating...">>
  /\ geoLog' = Append(geoLog, [origin |-> "geoButton", outcome |-> "unsupported"])
  /\ GeoButtonCatch

\* the browser reports an error to the click handler
GeoButtonRejects ==
  /\ geoButton = "awaitGeo"
  /\ \E err \in {"denied", "timeout"} : geoLog' = SettleGeo("geoButton", err)
  /\ GeoButtonCatch
  /\ UNCHANGED locationIndicator

\* the browser reports a position to the click handler
GeoButtonResolves ==
  /\ geoButton = "awaitGeo"
  /\ geoLog' = SettleGeo("geoButton", "position")
  /\ geoButton' = "awaitReverse"
  /\ UNCHANGED <<state, toast, locationIndicator, lastLocationItem, loads,
                 startup, insightsView, search, insightVars, recentsVars,
                 fetchVars, penaltyVars, forecastVars>>

\* safeReverse settles in the click handler
GeoButtonReverseSettles ==
  /\ geoButton = "awaitReverse"
  /\ \E location \in ReverseOutcomes(Position.latitude, Position.longitude) :
       loadWeather(location, "geoButton")
  /\ geoButton' = "awaitLoad"
  /\ UNCHANGED <<lastLocationItem, startup, geoLog, insightsView, search,
                 insightVars, recentsVars, fetchVars, penaltyVars, forecastVars>>

\* mutant of LoadAttemptFails: the catch block of loadWeather also resets
\* state.weather to null
LoadAttemptFails_ClearsWeather(i) ==
  /\ loads[i].pc = "awaitFetch"
  /\ IF loads[i].candidateIdx < Len(Candidates)
     THEN /\ loads' = [loads EXCEPT ![i].candidateIdx = @ + 1,
                                    ![i].requests = @ + 1]
          /\ UNCHANGED <<state, toast, startup, geoButton>>
     ELSE /\ loads' = [loads EXCEPT ![i].pc = "failed",
                                    ![i].finished = NextFinished]
          /\ state' = [state EXCEPT !.weather = NoWeather]
          /\ toast' = showToast(LoadFailedText)
          /\ CallerResumes(loads[i].caller)
  /\ UNCHANGED <<locationIndicator, lastLocationItem, geoLog,
                 insightsView, search, insightVars, recentsVars, fetchVars, penaltyVars, forecastVars>>

\* an attempt of the i-th call fails (fetch rejects, the response is not ok,
\* its JSON does not parse): fetchWeatherData tries the reduced set; after
\* the reduced set it throws, and the catch block of loadWeather hides the
\* toast and shows the failure notice
LoadAttemptFails(i) ==
  /\ loads[i].pc = "awaitFetch"
  /\ IF loads[i].candidateIdx < Len(Candidates)
     THEN /\ loads' = [loads EXCEPT ![i].candidateIdx = @ + 1,
                                    ![i].requests = @ + 1]
          /\ UNCHANGED <<toast, startup, geoButton>>
     ELSE /\ loads' = [loads EXCEPT ![i].pc = "failed",
                                    ![i].finished = NextFinished]
          /\ toast' = showToast(LoadFailedText)
          /\ CallerResumes(loads[i].caller)
  /\ UNCHANGED <<state, locationIndicator, lastLocationItem, geoLog,
                 insightsView, search, insightVars, recentsVars, fetchVars, penaltyVars, forecastVars>>

\* mutant of LoadAttemptSucceeds: a forecast that answers a call which is no
\* longer the latest one is dropped
LoadAttemptSucceeds_DropsStale(i) ==
  /\ loads[i].pc = "awaitFetch"
  /\ \E reading \in ServedReadings :
       LET location == loads[i].location
           weather == WeatherOf(i, reading, Candidates[loads[i].candidateIdx])
           loaded == [state EXCEPT !.weather = weather]
       IN  IF i = Len(loads)
           THEN /\ state' = loaded
                /\ saveRecentLocation(RecentEntry(location, clock))
                /\ lastLocationItem' = setLastLocation(location, clock)
                /\ insightsView' = renderInsights(loaded, insightsView)
           ELSE UNCHANGED <<state, localStorage, saveLog, clock,
                            lastLocationItem, insightsView>>
  /\ toast' = hideToast(toast)
  /\ loads' = [loads EXCEPT ![i].pc = "returned", ![i].finished = NextFinished]
  /\ CallerResumes(loads[i].caller)
  /\ UNCHANGED <<locationIndicator, geoLog, search, freshSaved, extras,
                 insightVars, fetchVars, penaltyVars, forecastVars>>

\* an attempt of the i-th call succeeds: state.weather, saveRecentLocation,
\* setLastLocation, renderAll, hideToast
LoadAttemptSucceeds(i) ==
  /\ loads[i].pc = "awaitFetch"
  /\ \E reading \in ServedReadings :
       LET location == loads[i].location
           weather == WeatherOf(i, reading, Candidates[loads[i].candidateIdx])
           loaded == [state EXCEPT !.weather = weather]
       IN  /\ state' = loaded
           /\ saveRecentLocation(RecentEntry(location, clock))
           /\ lastLocationItem' = setLastLocation(location, clock)
           /\ insightsView' = renderInsights(loaded, insightsView)
  /\ toast' = hideToast(toast)
  /\ loads' = [loads EXCEPT ![i].pc = "returned", ![i].finished = NextFinished]
  /\ CallerResumes(loads[i].caller)
  /\ UNCHANGED <<locationIndicator, geoLog, search, freshSaved, extras,
                 insightVars, fetchVars, penaltyVars, forecastVars>>

\* click on an activity button
ClickActivity(activity) ==
  /\ startup # "notStarted"
  /\ state' = [state EXCEPT !.activity = activity]
  /\ insightsView' = renderInsights(state', insightsView)
  /\ UNCHANGED <<toast, locationIndicator, lastLocationItem, loads, startup,
                 geoButton, geoLog, search, insightVars, recentsVars, fetchVars, penaltyVars, forecastVars>>

\* click on the C or the F button: state.units, renderAll()
ClickUnits(units) ==
  /\ startup # "notStarted"
  /\ state' = [state EXCEPT !.units = units]
  /\ insightsView' = renderInsights(state', insightsView)
  /\ UNCHANGED <<toast, locationIndicator, lastLocationItem, loads, startup,
                 geoButton, geoLog, search, insightVars, recentsVars, fetchVars, penaltyVars, forecastVars>>

\* click on an entry of the recents dropdown: loadWeather(r)
ClickRecent ==
  /\ MayLoad
  /\ \E k \in 1..Len(getRecentLocations(localStorage)) :
       loadWeather(RecentAsLocation(getRecentLocations(localStorage)[k]), "recents")
  /\ UNCHANGED <<lastLocationItem, startup, geoButton, geoLog, insightsView,
                 search, insightVars, recentsVars, fetchVars, penaltyVars, forecastVars>>

\* onSearchChanged with fewer than 3 characters: the list is hidden and
\* emptied
TypeShortQuery ==
  /\ startup # "notStarted"
  /\ search' = [search EXCEPT !.children = <<>>, !.hidden = TRUE]
  /\ UNCHANGED <<state, toast, locationIndicator, lastLocationItem, loads,
                 startup, geoButton, geoLog, insightsView, insightVars,
                 recentsVars, fetchVars, penaltyVars, forecastVars>>

\* onSearchChanged with 3 characters or more: searchCities sends the request
TypeQuery ==
  /\ startup # "notStarted"
  /\ search.pc = "idle"
  /\ search' = [search EXCEPT !.pc = "awaitFetch", !.outcome = "pending"]
  /\ UNCHANGED <<state, toast, locationIndicator, lastLocationItem, loads,
                 startup, geoButton, geoLog, insightsView, insightVars,
                 recentsVars, fetchVars, penaltyVars, forecastVars>>

\* searchCities throws and onSearchChanged swallows the error:
\* renderSearchResults is not called
SearchSwallowed ==
  /\ search' = [search EXCEPT !.pc = "idle", !.outcome = "failed"]
  /\ UNCHANGED <<state, toast, locationIndicator, lastLocationItem, loads,
                 startup, geoButton, geoLog, insightsView, insightVars,
                 recentsVars, fetchVars, penaltyVars, forecastVars>>

\* await fetch(url) rejects in searchCities
SearchFetchRejects == search.pc = "awaitFetch" /\ SearchSwallowed

\* the geocoding response is not ok
SearchRespondsNotOk == search.pc = "awaitFetch" /\ SearchSwallowed

\* the geocoding response is ok: await response.json()
SearchRespondsOk ==
  /\ search.pc = "awaitFetch"
  /\ search' = [search EXCEPT !.pc = "awaitJson"]
  /\ UNCHANGED <<state, toast, locationIndicator, lastLocationItem, loads,
                 startup, geoButton, geoLog, insightsView, insightVars,
                 recentsVars, fetchVars, penaltyVars, forecastVars>>

\* the body of the geocoding response is no JSON
SearchJsonRejects == search.pc = "awaitJson" /\ SearchSwallowed

\* renderSearchResults(cities): the list is replaced, and hidden when empty
renderSearchResults(cities) ==
  [pc |-> "idle", children |-> cities, hidden |-> (cities = <<>>),
   outcome |-> "rendered"]

\* searchCities returns the candidates: none, or the places found
SearchResolves ==
  /\ search.pc = "awaitJson"
  /\ \E cities \in {<<>>, Cities} : search' = renderSearchResults(cities)
  /\ UNCHANGED <<state, toast, locationIndicator, lastLocationItem, loads,
                 startup, geoButton, geoLog, insightsView, insightVars,
                 recentsVars, fetchVars, penaltyVars, forecastVars>>

\* focus on the search box shows a list that has entries
FocusSearch ==
  /\ startup # "notStarted"
  /\ search.children # <<>>
  /\ search.hidden
  /\ search' = [search EXCEPT !.hidden = FALSE]
  /\ UNCHANGED <<state, toast, locationIndicator, lastLocationItem, loads,
                 startup, geoButton, geoLog, insightsView, insightVars,
                 recentsVars, fetchVars, penaltyVars, forecastVars>>

\* click outside the search box and its list: the list is hidden
DocumentClick ==
  /\ startup # "notStarted"
  /\ ~search.hidden
  /\ search' = [search EXCEPT !.hidden = TRUE]
  /\ UNCHANGED <<state, toast, locationIndicator, lastLocationItem, loads,
                 startup, geoButton, geoLog, insightsView, insightVars,
                 recentsVars, fetchVars, penaltyVars, forecastVars>>

\* click on a candidate: the list is hidden, loadWeather(city)
ClickSearchResult ==
  /\ MayLoad
  /\ ~search.hidden
  /\ \E k \in 1..Len(search.children) : loadWeather(search.children[k], "search")
  /\ search' = [search EXCEPT !.hidden = TRUE]
  /\ UNCHANGED <<lastLocationItem, startup, geoButton, geoLog, insightsView,
                 insightVars, recentsVars, fetchVars, penaltyVars, forecastVars>>

(***************************************************************************)
(* Inputs of the scoring engine and of the alert generator.  The values    *)
(* sit on and next to every threshold of the code; Null is a missing field.*)
(***************************************************************************)

ScoreWindSpeeds == {Null, 1004, 1006, 2006, 3006, 4004, 4006}
ScoreTemperatures == {Null, 50, 100, 150, 251, 350, 351}
ScoreHumidities == {Null, 61, 80, 81, 89, 90}
ScoreVisibilities == {Null, 1999, 2000, 5000, 10000}
ScoreUvIndexes == {Null, 51, 70, 71, 91}
Relations == {"", "headwind", "tailwind", "crosswind", "Headwind", "sideways"}

AlertWindSpeeds == {Null, 0, 2494, 2496, 2500, 3994, 3996, 4000, 4500}
AlertTemperatures == {Null, -10, 0, 1, 349, 350, 380}
AlertVisibilities == {Null, 0, 1500, 1999, 2000, 10000}
AlertPrecipitations == {Null, 0, 1}
AlertProbabilities == {Null, 60, 61, 70}

Reading(w, t, h, v, u, p, pp) ==
  [windSpeed |-> w, temperature |-> t, humidity |-> h, visibility |-> v,
   uvIndex |-> u, precipitation |-> p, precipitationProbability |-> pp]

\* the insights computed for a reading: the three scores and the alert list
Evaluate(c, rel) ==
  /\ current' = c
  /\ windRelation' = rel
  /\ scores' = ScoreAll(c, rel)
  /\ alerts' = generateSafetyAlerts(c)
  /\ UNCHANGED <<recentsVars, fetchVars, appVars, penaltyVars, forecastVars>>

SetWindSpeed(D) ==
  \E w \in D : Evaluate([current EXCEPT !.windSpeed = w], windRelation)

SetTemperature(D) ==
  \E t \in D : Evaluate([current EXCEPT !.temperature = t], windRelation)

SetVisibility(D) ==
  \E v \in D : Evaluate([current EXCEPT !.visibility = v], windRelation)

SetPrecipitation(D) ==
  \E p \in D : Evaluate([current EXCEPT !.precipitation = p], windRelation)

SetPrecipitationProbability(D) ==
  \E pp \in D :
    Evaluate([current EXCEPT !.precipitationProbability = pp], windRelation)

SetWindRelation(D) ==
  \E rel \in D : Evaluate(current, rel)

\* scoring: every combination of wind, temperature, humidity, visibility, UV
\* and wind relation
ScoreInit ==
  \E w \in ScoreWindSpeeds, t \in ScoreTemperatures, h \in ScoreHumidities,
     v \in ScoreVisibilities, u \in ScoreUvIndexes, rel \in Relations :
    LET c == Reading(w, t, h, v, u, Null, Null)
    IN  /\ current = c
        /\ windRelation = rel
        /\ scores = ScoreAll(c, rel)
        /\ alerts = generateSafetyAlerts(c)
        /\ RecentsInit
        /\ FetchInit
        /\ AppIdle
        /\ PenaltyIdle
        /\ ForecastIdle

\* the steps re-score the reading with another wind speed or wind relation
ScoreNext ==
  \/ SetWindSpeed(ScoreWindSpeeds)
  \/ SetWindRelation(Relations)

SpecScore == ScoreInit /\ [][ScoreNext]_vars

\* alerting: every combination of wind, visibility, precipitation,
\* precipitation probability and temperature
AlertInit ==
  \E w \in AlertWindSpeeds, t \in AlertTemperatures, v \in AlertVisibilities,
     p \in AlertPrecipitations, pp \in AlertProbabilities :
    LET c == Reading(w, t, Null, v, Null, p, pp)
    IN  /\ current = c
        /\ windRelation = "crosswind"
        /\ scores = ScoreAll(c, "crosswind")
        /\ alerts = generateSafetyAlerts(c)
        /\ RecentsInit
        /\ FetchInit
        /\ AppIdle
        /\ PenaltyIdle
        /\ ForecastIdle

AlertNext ==
  \/ SetWindSpeed(AlertWindSpeeds)
  \/ SetTemperature(AlertTemperatures)
  \/ SetVisibility(AlertVisibilities)
  \/ SetPrecipitation(AlertPrecipitations)
  \/ SetPrecipitationProbability(AlertProbabilities)

SpecAlerts == AlertInit /\ [][AlertNext]_vars

\* the insights are not looked at while the recents store is exercised
InsightsIdle ==
  LET c == Reading(Null, Null, Null, Null, Null, Null, Null)
  IN  /\ current = c
      /\ windRelation = "crosswind"
      /\ scores = ScoreAll(c, "crosswind")
      /\ alerts = generateSafetyAlerts(c)
      /\ PenaltyIdle
      /\ ForecastIdle

\* the scoring engine is not looked at while forecasts are parsed
ScoringIdle ==
  LET c == Reading(Null, Null, Null, Null, Null, Null, Null)
  IN  /\ current = c
      /\ windRelation = "crosswind"
      /\ scores = ScoreAll(c, "crosswind")
      /\ alerts = generateSafetyAlerts(c)
      /\ PenaltyIdle

RecentsSpecInit == InsightsIdle /\ RecentsInit /\ FetchInit /\ AppIdle

RecentsNext == SaveFresh \/ SaveAlias \/ clearRecentLocations \/ Tick

SpecRecents == RecentsSpecInit /\ [][RecentsNext]_vars

\* saves only: no clear
SavesNext == SaveFresh \/ SaveAlias \/ Tick

SpecSaves == RecentsSpecInit /\ [][SavesNext]_vars

FetchSpecInit == InsightsIdle /\ RecentsInit /\ FetchInit /\ AppIdle

FetchNext ==
  \/ CallFetchWeatherData
  \/ FetchRejects
  \/ FetchRespondsNotOk
  \/ ErrorBodyRead
  \/ FetchRespondsOk
  \/ JsonRejects
  \/ JsonIsNull
  \/ JsonParsed

SpecFetch == FetchSpecInit /\ [][FetchNext]_vars

\* what the browser store holds under LAST_KEY when the page opens: nothing,
\* a last location, an object whose latitude is no number, or text that is
\* no JSON
PersistedLast ==
  {NoItem,
   LastObject(LastPayload(Cities[1], 0)),
   LastObject([LastPayload(Cities[1], 0) EXCEPT !.latitude = Null]),
   MalformedItem}

AppSpecInit ==
  /\ InsightsIdle
  /\ RecentsInit
  /\ FetchInit
  /\ AppInit
  /\ lastLocationItem \in PersistedLast

\* the page from DOMContentLoaded on: startup, geolocation, loads
LoadsNext ==
  \/ StartupWithLast
  \/ StartupLocates
  \/ StartupUnsupported
  \/ StartupGeoResolves
  \/ StartupGeoRejects
  \/ StartupReverseSettles
  \/ ClickGeoButton
  \/ ClickGeoButtonUnsupported
  \/ GeoButtonRejects
  \/ GeoButtonResolves
  \/ GeoButtonReverseSettles
  \/ \E i \in 1..Len(loads) : LoadAttemptFails(i)
  \/ \E i \in 1..Len(loads) : LoadAttemptSucceeds(i)
  \/ ClickRecent
  \/ Tick

SpecLoads == AppSpecInit /\ [][LoadsNext]_vars


\* the page with its activity and units buttons: startup, loads, clicks
UnitsNext ==
  \/ StartupWithLast
  \/ StartupLocates
  \/ StartupUnsupported
  \/ StartupGeoResolves
  \/ StartupGeoRejects
  \/ StartupReverseSettles
  \/ \E i \in 1..Len(loads) : LoadAttemptFails(i)
  \/ \E i \in 1..Len(loads) : LoadAttemptSucceeds(i)
  \/ ClickRecent
  \/ \E activity \in {"road", "gravel", "mtb"} : ClickActivity(activity)
  \/ \E units \in {"C", "F"} : ClickUnits(units)

SpecUnits == AppSpecInit /\ [][UnitsNext]_vars

\* the page with its search box: startup, lookups, loads of candidates
SearchNext ==
  \/ StartupWithLast
  \/ StartupLocates
  \/ StartupUnsupported
  \/ StartupGeoResolves
  \/ StartupGeoRejects
  \/ StartupReverseSettles
  \/ \E i \in 1..Len(loads) : LoadAttemptFails(i)
  \/ \E i \in 1..Len(loads) : LoadAttemptSucceeds(i)
  \/ TypeShortQuery
  \/ TypeQuery
  \/ SearchFetchRejects
  \/ SearchRespondsNotOk
  \/ SearchRespondsOk
  \/ SearchJsonRejects
  \/ SearchResolves
  \/ FocusSearch
  \/ DocumentClick
  \/ ClickSearchResult

SpecSearch == AppSpecInit /\ [][SearchNext]_vars

\* the recents store opened on a browser store in any condition
StoreInit ==
  /\ InsightsIdle
  /\ FetchInit
  /\ AppInit
  /\ clock = 0
  /\ saveLog = <<>>
  /\ freshSaved = 0
  /\ extras = 0
  /\ localStorage \in {NoItem, MalformedItem, NonArrayItem, ThrowingItem}
  /\ lastLocationItem \in PersistedLast \cup {ThrowingItem}

SpecStore == StoreInit /\ [][RecentsNext]_vars

\* inputs of applyEnvironmentalPenalties: 0-100 scores, temperatures on and
\* next to 10 C and 30 C, humidities around 70 %; Null is null and NaN is an
\* undefined field or text that is no number
BaseScores == {0, 1, 20, 35, 50, 80, 100}
PenaltyTemperatures == {NaN, Null, -100, 0, 99, 100, 200, 300, 301, 350, 450, 500}
PenaltyHumidities == {NaN, Null, 69, 70, 100}

\* applyEnvironmentalPenalties(base, { current: c })
Penalize(base, c) ==
  /\ baseScore' = base
  /\ penalized' = applyEnvironmentalPenalties(base, c)
  /\ current' = c
  /\ scores' = ScoreAll(c, windRelation)
  /\ alerts' = generateSafetyAlerts(c)
  /\ UNCHANGED <<windRelation, recentsVars, fetchVars, appVars, forecastVars>>

PenaltyInit ==
  \E base \in BaseScores, t \in PenaltyTemperatures, rh \in PenaltyHumidities :
    LET c == Reading(Null, t, rh, Null, Null, Null, Null)
    IN  /\ current = c
        /\ windRelation = "crosswind"
        /\ scores = ScoreAll(c, "crosswind")
        /\ alerts = generateSafetyAlerts(c)
        /\ baseScore = base
        /\ penalized = applyEnvironmentalPenalties(base, c)
        /\ RecentsInit
        /\ FetchInit
        /\ AppIdle
        /\ ForecastIdle

SetBaseScore == \E base \in BaseScores : Penalize(base, current)

SetPenaltyTemperature ==
  \E t \in PenaltyTemperatures :
    Penalize(baseScore, [current EXCEPT !.temperature = t])

SetPenaltyHumidity ==
  \E rh \in PenaltyHumidities :
    Penalize(baseScore, [current EXCEPT !.humidity = rh])

PenaltyNext == SetBaseScore \/ SetPenaltyTemperature \/ SetPenaltyHumidity

SpecPenalties == PenaltyInit /\ [][PenaltyNext]_vars

\* scoring factors: values inside every band of every factor, among them the
\* ideal ones (no penalty at all), and each factor missing
FactorWindSpeeds == {Null, 500, 1000, 1006, 2500, 4006}
FactorTemperatures == {Null, 40, 120, 200, 330, 351}
FactorHumidities == {Null, 50, 61, 85, 90}
FactorVisibilities == {Null, 1500, 2000, 7000, 10000, 15000}
FactorUvIndexes == {Null, 30, 50, 60, 80, 95}
FactorRelations == {"crosswind", "headwind", "tailwind"}

SetHumidity(D) ==
  \E h \in D : Evaluate([current EXCEPT !.humidity = h], windRelation)

SetUvIndex(D) ==
  \E u \in D : Evaluate([current EXCEPT !.uvIndex = u], windRelation)

FactorInit ==
  \E w \in FactorWindSpeeds, t \in FactorTemperatures, h \in FactorHumidities,
     v \in FactorVisibilities, u \in FactorUvIndexes, rel \in FactorRelations :
    LET c == Reading(w, t, h, v, u, Null, Null)
    IN  /\ current = c
        /\ windRelation = rel
        /\ scores = ScoreAll(c, rel)
        /\ alerts = generateSafetyAlerts(c)
        /\ RecentsInit
        /\ FetchInit
        /\ AppIdle
        /\ PenaltyIdle
        /\ ForecastIdle

\* each step re-scores the reading with one factor changed
FactorNext ==
  \/ SetWindSpeed(FactorWindSpeeds)
  \/ SetTemperature(FactorTemperatures)
  \/ SetHumidity(FactorHumidities)
  \/ SetVisibility(FactorVisibilities)
  \/ SetUvIndex(FactorUvIndexes)
  \/ SetWindRelation(FactorRelations)

SpecFactors == FactorInit /\ [][FactorNext]_vars

\* temperature sweep: every tenth of a degree from 0.0 C to 40.0 C, a frost
\* of -10.0 C and a missing temperature, under a dry and a humid reading
TableTemperatures == {Null, -100} \cup (0 .. 400)
TableWindSpeeds == {500}
TableHumidities == {50, 90}

TemperatureInit ==
  \E w \in TableWindSpeeds, t \in TableTemperatures, h \in TableHumidities :
    LET c == Reading(w, t, h, 10000, 30, Null, Null)
    IN  /\ current = c
        /\ windRelation = "crosswind"
        /\ scores = ScoreAll(c, "crosswind")
        /\ alerts = generateSafetyAlerts(c)
        /\ RecentsInit
        /\ FetchInit
        /\ AppIdle
        /\ PenaltyIdle
        /\ ForecastIdle

\* the step re-scores the reading with another temperature
TemperatureNext == SetTemperature(TableTemperatures)

SpecTemperature == TemperatureInit /\ [][TemperatureNext]_vars

\* forecast responses: the hourly arrays of the full or of the reduced
\* parameter set, all as long as hourly.time (0, 1, 2, 3 or 27 consecutive
\* hours from hour 0 on), or no hourly data at all; the API reports a value
\* it does not have as null
FullKeys ==
  {"temperature_2m", "relativehumidity_2m", "precipitation_probability",
   "precipitation", "weathercode", "cloudcover", "visibility", "windspeed_10m",
   "winddirection_10m", "uv_index"}
ReducedKeys == FullKeys \ {"visibility", "uv_index"}
SeriesLengths == {0, 1, 2, 3, 27}
NullAt == {-1, 0, 1}
NullKeys == {"temperature_2m", "precipitation"}

\* a number for each array, to tell the values of the arrays apart
FieldNumber(key) ==
  CASE key = "temperature_2m" -> 1
    [] key = "relativehumidity_2m" -> 2
    [] key = "precipitation_probability" -> 3
    [] key = "precipitation" -> 4
    [] key = "weathercode" -> 5
    [] key = "cloudcover" -> 6
    [] key = "visibility" -> 7
    [] key = "windspeed_10m" -> 8
    [] key = "winddirection_10m" -> 9
    [] OTHER -> 10

\* the values served: different for every array and every index
Sample(key, idx, gap) ==
  IF idx = gap /\ key \in NullKeys THEN Null ELSE FieldNumber(key) * 100 + idx

HourSeries(n) == [i \in 1..n |-> [hour |-> i - 1]]

ForecastData(keys, n, gap) ==
  [hourly |->
     [key \in keys \cup {"time"} |->
        IF key = "time" THEN HourSeries(n)
        ELSE [i \in 1..n |-> Sample(key, i - 1, gap)]]]

Responses ==
  {NoHourlyData}
  \cup {ForecastData(keys, n, gap) :
          keys \in {FullKeys, ReducedKeys}, n \in SeriesLengths, gap \in NullAt}

\* the time of the call: before the series, on an hour, just before, on and
\* just after the half hour between two entries, and beyond its end
ParseNows == {-60, 0, 29, 30, 31, 60, 90, 150, 1500, 1650}

\* parseWeatherResponse(data) called when new Date() is now
ReceiveForecast(data, now) ==
  /\ response' = data
  /\ nowMs' = now
  /\ parsed' = parseWeatherResponse(data, now)
  /\ UNCHANGED <<conditions, insightVars, recentsVars, fetchVars, appVars, penaltyVars>>

ParseInit ==
  \E data \in Responses, now \in ParseNows :
    /\ response = data
    /\ nowMs = now
    /\ parsed = parseWeatherResponse(data, now)
    /\ conditions = NoConditions
    /\ ScoringIdle
    /\ RecentsInit
    /\ FetchInit
    /\ AppIdle

ParseNext == \E data \in Responses, now \in ParseNows : ReceiveForecast(data, now)

SpecParse == ParseInit /\ [][ParseNext]_vars

\* precipitation histories: 80 consecutive hours that all report the same
\* amount (none, 0.1 mm, null, or text that is no number) but for one hour
\* that reports a larger amount
PrecipHours == 80
BaseAmounts == {0, 1, Null, NaN}
SpikeHours == {2, 3, 26, 27, 75, 76}
SpikeAmounts == {29, 30, 99, 100, 199, 200, 301}

PrecipData(base, spikeHour, spikeAmount) ==
  [hourly |->
     [key \in ReducedKeys \cup {"time"} |->
        IF key = "time" THEN HourSeries(PrecipHours)
        ELSE IF key = "precipitation"
             THEN [i \in 1..PrecipHours |->
                     IF i - 1 = spikeHour THEN spikeAmount ELSE base]
             ELSE [i \in 1..PrecipHours |-> Sample(key, i - 1, -1)]]]

\* the forecast was parsed at hour 75
PrecipParsedAt == 4500

\* the conditions are assessed at hour 75 or half an hour later
PrecipNows == {4500, 4530}

PrecipInit ==
  \E base \in BaseAmounts, spikeHour \in SpikeHours, spikeAmount \in SpikeAmounts :
    LET data == PrecipData(base, spikeHour, spikeAmount)
    IN  /\ response = data
        /\ nowMs = PrecipParsedAt
        /\ parsed = parseWeatherResponse(data, PrecipParsedAt)
        /\ conditions = NoConditions
        /\ ScoringIdle
        /\ RecentsInit
        /\ FetchInit
        /\ AppIdle

\* calculateGravelConditions and calculateMTBTrailReadiness on the forecast
AssessTrails ==
  \E now \in PrecipNows :
    /\ now >= nowMs
    /\ nowMs' = now
    /\ conditions' = TrailConditions(parsed, now)
    /\ UNCHANGED <<response, parsed, insightVars, recentsVars, fetchVars, appVars, penaltyVars>>

PrecipNext == AssessTrails

SpecPrecip == PrecipInit /\ [][PrecipNext]_vars

(***************************************************************************)
(* Properties of the scoring engine (SpecScore)                            *)
(***************************************************************************)

Activities == {"road", "gravel", "mtb"}

\* the inputs the scoring contract calls valid: all five present and in range
ValidInputs ==
  /\ current.windSpeed # Null /\ current.windSpeed >= 0
  /\ current.temperature # Null
  /\ current.humidity # Null /\ current.humidity >= 0 /\ current.humidity <= 100
  /\ current.visibility # Null /\ current.visibility >= 0
  /\ current.uvIndex # Null /\ current.uvIndex >= 0

\* sum of the five reported penalties, in hundredths
BreakdownSum(r) ==
  r.breakdown.windPenalty + r.breakdown.temperaturePenalty
  + r.breakdown.humidityPenalty + r.breakdown.visibilityPenalty
  + r.breakdown.uvPenalty

\* C1: for every activity and every valid input the score is >= 1, <= 10 and
\* a whole number of tenths.
C1_ScoreInRange ==
  ValidInputs =>
    \A a \in Activities :
      /\ scores[a].score >= 100
      /\ scores[a].score <= 1000
      /\ scores[a].score % 10 = 0

\* C1 witness: valid inputs whose penalties add up to more than 9 points, so
\* that only the final clamp keeps every activity's score at 1.0
C1_Witness ==
  /\ ValidInputs
  /\ \A a \in Activities : BreakdownSum(scores[a]) > 900 /\ scores[a].score = 100

\* C2: temperature > 35 C gives a score <= 2.0 for road (any wind relation),
\* gravel and MTB, whatever the other inputs are.
C2_HeatDominates ==
  (current.temperature # Null /\ current.temperature > 350) =>
    \A a \in Activities : scores[a].score <= 200

\* C2 witness: above 35 C with no other penalty at all; the road total would
\* be 10 - 6 = 4 and the cap brings it to 2.0
C2_Witness ==
  /\ current.temperature # Null /\ current.temperature > 350
  /\ BreakdownSum(scores.road) = 600
  /\ scores.road.score = 200

WindSpeedRaised ==
  /\ current.windSpeed # Null
  /\ current'.windSpeed # Null
  /\ current'.windSpeed > current.windSpeed
  /\ current' = [current EXCEPT !.windSpeed = current'.windSpeed]
  /\ windRelation' = windRelation

WindThresholds == {1000, 2000, 3000, 4000}

\* the raise takes the speed from at or below a threshold to above it
CrossesWindThreshold ==
  \E th \in WindThresholds : current.windSpeed <= th /\ current'.windSpeed > th

\* C4 as stated: raising the wind speed across a threshold boundary never
\* increases the wind penalty (of any activity).
C4_Original ==
  [][(WindSpeedRaised /\ CrossesWindThreshold) =>
       \A a \in Activities :
         scores'[a].breakdown.windPenalty <= scores[a].breakdown.windPenalty]_vars

\* C4 amended: raising the wind speed across a threshold boundary (10, 20, 30
\* or 40 km/h), all else fixed, never decreases the wind penalty of any
\* activity.
C4_WindPenaltyMonotone ==
  [][(WindSpeedRaised /\ CrossesWindThreshold) =>
       \A a \in Activities :
         scores'[a].breakdown.windPenalty >= scores[a].breakdown.windPenalty]_vars

\* C4 witness: a reading above the 40 km/h boundary that carries the top wind
\* step for every activity (road x relation, gravel x 1.5, MTB x 1)
C4_Witness ==
  /\ current.windSpeed # Null /\ current.windSpeed > 4000
  /\ scores.mtb.breakdown.windPenalty = 400
  /\ scores.gravel.breakdown.windPenalty = 600
  /\ scores.road.breakdown.windPenalty >= 280

\* a step that changes the wind relation from one value to another, same reading
RelationChanged(from, to) ==
  /\ current' = current
  /\ windRelation = from
  /\ windRelation' = to

\* C5: for road and every wind speed, headwind penalty >= crosswind penalty
\* >= tailwind penalty (multipliers 1.3, 1.0, 0.7 on the same step value); an
\* absent or unrecognised relation is scored as crosswind.
C5_RelationOrder ==
  [][/\ RelationChanged("crosswind", "headwind") =>
          /\ scores'.road.breakdown.windPenalty >= scores.road.breakdown.windPenalty
          /\ scores'.road.breakdown.windPenalty * 100
               = scores.road.breakdown.windPenalty * 130
     /\ RelationChanged("crosswind", "tailwind") =>
          /\ scores'.road.breakdown.windPenalty <= scores.road.breakdown.windPenalty
          /\ scores'.road.breakdown.windPenalty * 100
               = scores.road.breakdown.windPenalty * 70
     /\ \A rel \in {"", "sideways"} :
          RelationChanged(rel, "crosswind") => scores'.road = scores.road]_vars

\* C5 witness: a headwind above 40 km/h, scored 4 x 1.3 = 5.2
C5_Witness ==
  /\ windRelation = "headwind"
  /\ current.windSpeed # Null /\ current.windSpeed > 4000
  /\ scores.road.breakdown.windPenalty = 520

(***************************************************************************)
(* Properties of the alert generator (SpecAlerts)                          *)
(***************************************************************************)

AlertTypes == [i \in 1..Len(alerts) |-> alerts[i].type]

HasWindAlert(severity) ==
  \E i \in 1..Len(alerts) : alerts[i].type = "wind" /\ alerts[i].severity = severity

NoWindAlert == \A i \in 1..Len(alerts) : alerts[i].type # "wind"

\* C6 as stated: wind alert high iff the given wind speed is >= 40, moderate
\* iff 25 <= speed < 40, none below 25 or when missing, for every value given
\* to the function, values with more than one decimal included.
C6_Original ==
  LET w == current.windSpeed
  IN  /\ HasWindAlert("high") <=> (w # Null /\ w >= 4000)
      /\ HasWindAlert("moderate") <=> (w # Null /\ w >= 2500 /\ w < 4000)
      /\ (w = Null \/ w < 2500) => NoWindAlert

\* C6 amended: the thresholds apply to the wind speed rounded to one decimal
\* (halves up): high iff the rounded speed is >= 40.0, i.e. speed >= 39.95;
\* moderate iff 25.0 <= rounded speed < 40.0, i.e. 24.95 <= speed < 39.95;
\* no wind alert when the speed is missing or rounds below 25.0.
C6_WindAlertOnRounded ==
  LET w == current.windSpeed
  IN  /\ HasWindAlert("high") <=> (w # Null /\ w >= 3995)
      /\ HasWindAlert("moderate") <=> (w # Null /\ w >= 2495 /\ w < 3995)
      /\ (w = Null \/ w < 2495) <=> NoWindAlert

\* C6 witness: 39.96 km/h, below 40 as given, raises the high wind alert
C6_Witness ==
  /\ current.windSpeed = 3996
  /\ HasWindAlert("high")

\* the alert types and severities a reading calls for, in check order, with
\* the wind condition applied to the speed from windFrom (hundredths) on
ExpectedAlerts(windFrom, highFrom) ==
  LET c == current
      w == c.windSpeed
      t == c.temperature
  IN  (IF w # Null /\ w >= windFrom
       THEN <<(<<"wind", IF w >= highFrom THEN "high" ELSE "moderate">>)>>
       ELSE <<>>)
      \o (IF c.visibility # Null /\ c.visibility < 2000
          THEN <<(<<"visibility", "moderate">>)>> ELSE <<>>)
      \o (IF (c.precipitation # Null /\ c.precipitation > 0)
             \/ (c.precipitationProbability # Null
                 /\ c.precipitationProbability > 60)
          THEN <<(<<"wet", "moderate">>)>> ELSE <<>>)
      \o (IF t # Null /\ t <= 0 THEN <<(<<"cold", "high">>)>> ELSE <<>>)
      \o (IF t # Null /\ t >= 350 THEN <<(<<"heat", "high">>)>> ELSE <<>>)

AlertsAsPairs == [i \in 1..Len(alerts) |-> <<alerts[i].type, alerts[i].severity>>]

\* C7 as stated: the list is exactly the sub-sequence of [wind, visibility,
\* wet, cold, heat] whose condition holds, the wind condition being
\* wind >= 25 on the snapshot's wind speed.
C7_Original == AlertsAsPairs = ExpectedAlerts(2500, 4000)

\* C7 amended: the same, with the wind condition applied to the wind speed
\* rounded to one decimal (rounded speed >= 25.0, high from 40.0).
C7_AlertsInCheckOrder ==
  /\ AlertsAsPairs = ExpectedAlerts(2495, 3995)
  /\ \A i, j \in 1..Len(alerts) : i # j => alerts[i].type # alerts[j].type

\* C7 witness: wind 45 km/h, visibility 1500 m, probability 70 % gives
\* wind(high), visibility(moderate), wet(moderate) in that order
C7_Witness ==
  /\ current.windSpeed = 4500
  /\ current.visibility = 1500
  /\ current.precipitationProbability = 70
  /\ Len(alerts) >= 3
  /\ alerts[1] = WindAlert("high")
  /\ alerts[2] = VisibilityAlert
  /\ alerts[3] = WetAlert

(***************************************************************************)
(* Properties of the recents store (SpecSaves, SpecRecents)                *)
(***************************************************************************)

\* the list getRecentLocations reads back
RecentsRead == getRecentLocations(localStorage)

\* the trimmed, lower-cased form of the names the runs use, written out
NameKey(name) ==
  CASE name = <<" ", "B", " ">> -> <<"b">>
    [] name = <<"B", " ">> -> <<"b">>
    [] name = <<"Z">> -> <<"z">>
    [] OTHER -> name

\* position in saveLog of the last save of this id and name, 0 if never saved
LastSaved(log, r) ==
  LET ks == {k \in 1..Len(log) : log[k].id = r.id /\ log[k].name = r.name}
  IN  IF ks = {} THEN 0 ELSE CHOOSE k \in ks : \A m \in ks : m <= k

\* the saved locations have pairwise distinct ids and pairwise distinct names
\* (names compared as the store compares them: trimmed, ignoring case)
SavedAllDistinct ==
  \A i, j \in 1..Len(saveLog) :
    i # j => /\ saveLog[i].id # saveLog[j].id
             /\ NameKey(saveLog[i].name) # NameKey(saveLog[j].name)

\* C8: from an empty store, after any sequence of saveRecentLocation calls the
\* list read back has at most 15 entries, most recently saved first; n saves
\* of pairwise distinct ids and names leave exactly min(n, 15) entries, the
\* latest min(n, 15) saves, so the 16th save evicts the oldest entry.
C8_RecentsCappedNewestFirst ==
  LET list == RecentsRead
      n == Len(saveLog)
  IN  /\ Len(list) <= 15
      /\ \A i \in 1..Len(list) : LastSaved(saveLog, list[i]) > 0
      /\ \A i, j \in 1..Len(list) :
           i < j => LastSaved(saveLog, list[i]) > LastSaved(saveLog, list[j])
      /\ SavedAllDistinct =>
           /\ Len(list) = Min(n, 15)
           /\ \A i \in 1..Len(list) :
                /\ list[i].id = saveLog[n + 1 - i].id
                /\ list[i].name = saveLog[n + 1 - i].name

\* C8 witness: 16 distinct locations saved, with the clock ticking once on the
\* way; 15 entries are left, the 16th first and the 2nd last
C8_Witness ==
  /\ Len(saveLog) = 16
  /\ SavedAllDistinct
  /\ clock = 1
  /\ Len(RecentsRead) = 15
  /\ RecentsRead[1].id = saveLog[16].id
  /\ RecentsRead[15].id = saveLog[2].id
  /\ RecentsRead[15].timestamp < RecentsRead[1].timestamp

\* no two entries share the normalized name, no two share the id
NoDuplicateEntries(list) ==
  \A i, j \in 1..Len(list) :
    i # j => /\ list[i].id # list[j].id
             /\ NameKey(list[i].name) # NameKey(list[j].name)

\* an entry the saved location replaces: same id or same normalized name
MatchesSaved(r, location) ==
  r.id = location.id \/ NameKey(r.name) = NameKey(location.name)

\* C9: after any sequence of saveRecentLocation and clearRecentLocations calls
\* from an empty store no two entries share the normalized name and no two
\* share the id; a save whose id or normalized name matches existing entries
\* removes them and puts the saved location at the front, the other entries
\* keeping their order, so the list does not grow.
C9_RecentsDeduplicated ==
  /\ [] NoDuplicateEntries(RecentsRead)
  /\ [][saveLog' # saveLog =>
          LET location == saveLog'[Len(saveLog')]
              before == RecentsRead
              after == getRecentLocations(localStorage')
              kept == SelectSeq(before, LAMBDA r : ~MatchesSaved(r, location))
          IN  /\ Len(after) >= 1
              /\ after[1].id = location.id
              /\ after[1].name = location.name
              /\ Tail(after) = SubSeq(kept, 1, Min(Len(kept), 14))
              /\ (\E i \in 1..Len(before) : MatchesSaved(before[i], location))
                   => Len(after) <= Len(before)]_vars

\* C9 witness: after locations 1 and 2 a location with the id of 1 and the
\* name of 2 in another spelling was saved; it replaced both
C9_Witness ==
  /\ Len(saveLog) >= 3
  /\ saveLog[Len(saveLog)] = [id |-> 1, name |-> <<"B", " ">>, timestamp |-> 0]
  /\ Len(RecentsRead) = Len(saveLog) - 2
  /\ RecentsRead[1].id = 1
  /\ RecentsRead[1].name = <<"B", " ">>


(***************************************************************************)
(* Properties of the forecast fetch (SpecFetch)                            *)
(***************************************************************************)

\* a request that is out: not yet answered, or answered and being read
InProgress(r) == r.state \in {"pending", "responded"}

\* C10: one call of fetchWeatherData issues at most two forecast requests,
\* never two at the same time; the reduced set is requested only after the
\* request with the full set has failed; no request follows a successful one;
\* the call throws if and only if both attempts failed, and then it throws the
\* error of the second attempt.
C10_SequentialFallback ==
  LET n == Len(requestLog)
  IN  /\ n <= 2
      /\ Cardinality({i \in 1..n : InProgress(requestLog[i])}) <= 1
      /\ \A i \in 1..n : /\ requestLog[i].latitude = fetchArgs.latitude
                         /\ requestLog[i].longitude = fetchArgs.longitude
      /\ n >= 1 => requestLog[1].hourly = "full"
      /\ n >= 2 => /\ requestLog[2].hourly = "reduced"
                   /\ requestLog[1].state = "failed"
      /\ \A i \in 1..(n - 1) : requestLog[i].state # "ok"
      /\ fetchPc = "thrown"
           <=> (n = 2 /\ \A i \in 1..n : requestLog[i].state = "failed")
      /\ fetchPc = "thrown"
           => fetchReturn = [kind |-> "error", value |-> requestLog[2].error]
      /\ fetchPc = "returned"
           => /\ requestLog[n].state = "ok"
              /\ fetchReturn.kind = "value"
              /\ fetchReturn.value.hourly = requestLog[n].hourly

\* C10 witness: the full set failed with HTTP 400, the reduced set with a
\* network error, and the call threw the network error
C10_Witness ==
  /\ fetchPc = "thrown"
  /\ Len(requestLog) = 2
  /\ requestLog[1].error = HttpError(400, "Bad parameter")
  /\ requestLog[2].error = <<"TypeError: Failed to fetch">>
  /\ fetchReturn.value = <<"TypeError: Failed to fetch">>

(***************************************************************************)
(* More properties of the scoring engine (SpecScore)                       *)
(***************************************************************************)

\* the reading with 0 in place of every missing field the scoring reads; a
\* snapshot without current is the reading with all of them missing
ZeroFilled(c) ==
  [c EXCEPT !.windSpeed = IF @ = Null THEN 0 ELSE @,
            !.temperature = IF @ = Null THEN 0 ELSE @,
            !.humidity = IF @ = Null THEN 0 ELSE @,
            !.visibility = IF @ = Null THEN 0 ELSE @,
            !.uvIndex = IF @ = Null THEN 0 ELSE @]

ScoredFields == {"windSpeed", "temperature", "humidity", "visibility", "uvIndex"}

\* C12: the three ...FromWeather results for a reading with missing fields
\* (all five missing when current is absent) equal the results for the
\* reading with 0 in their place, and every score lies in [1, 10].
C12_MissingScoredAsZero ==
  /\ scores = ScoreAll(ZeroFilled(current), windRelation)
  /\ \A a \in Activities : scores[a].score >= 100 /\ scores[a].score <= 1000

\* C12 witness: all five fields are missing and the road result is the one of
\* 0 km/h, 0 C, 0 %, 0 km, UV 0: 3 points off for the cold, 3 for the
\* visibility
C12_Witness ==
  /\ \A f \in ScoredFields : current[f] = Null
  /\ scores["road"].score = 400
  /\ scores["road"].breakdown.temperaturePenalty = 300
  /\ scores["road"].breakdown.visibilityPenalty = 300

\* the band texts of an activity
BandTexts(a) ==
  CASE a = "road" -> RoadMessages
    [] a = "gravel" -> GravelMessages
    [] OTHER -> MTBMessages

\* the text the claim assigns to a score
ClaimedBandText(a, score) ==
  IF score >= 800 THEN BandTexts(a)[1]
  ELSE IF score >= 600 THEN BandTexts(a)[2]
  ELSE IF score >= 400 THEN BandTexts(a)[3]
  ELSE IF score >= 300 THEN BandTexts(a)[4]
  ELSE BandTexts(a)[5]

\* C19: every message is the band text of the activity for the final score,
\* followed by the UV advisory exactly when uvIndex >= 7, for every activity
\* and every score.
C19_MessageBandAndUvAdvisory ==
  \A a \in Activities :
    scores[a].message =
      <<ClaimedBandText(a, scores[a].score)>>
      \o (IF current.uvIndex # Null /\ current.uvIndex >= 70
          THEN <<UvAdvisory>> ELSE <<>>)

\* C19 witness: UV index 7.0, a road score between 2 and 3 with the
\* poor-conditions text and an MTB score of at least 3 in another band, both
\* with the advisory
C19_Witness ==
  /\ current.uvIndex = 70
  /\ scores["road"].score >= 200
  /\ scores["road"].score < 300
  /\ scores["road"].message = <<RoadMessages[5], UvAdvisory>>
  /\ scores["mtb"].score >= 300
  /\ scores["mtb"].message[2] = UvAdvisory

(***************************************************************************)
(* Properties of the environmental penalties (SpecPenalties)               *)
(***************************************************************************)

\* the field holds a number
IsNumeric(v) == v # Null /\ v # NaN

\* C20: the result is an integer in [0, 100]; above 30 C it is below a
\* positive base score, and at most 35 when the humidity is 70 % or more;
\* below 10 C it is below a positive base score; for a temperature in
\* [10, 30] or a temperature that is no number it is the base score, rounded
\* and clamped.
C20_Original ==
  LET t == current.temperature
      rh == current.humidity
  IN  /\ penalized \in 0..100
      /\ (IsNumeric(t) /\ t > 300 /\ baseScore > 0) => penalized < baseScore
      /\ (IsNumeric(t) /\ t > 300 /\ IsNumeric(rh) /\ rh >= 70) => penalized <= 35
      /\ (IsNumeric(t) /\ t < 100 /\ baseScore > 0) => penalized < baseScore
      /\ ((IsNumeric(t) /\ t >= 100 /\ t <= 300) \/ ~IsNumeric(t)) =>
           penalized = Min(100, Max(0, baseScore))

(***************************************************************************)
(* Properties of the page (SpecUnits, SpecLoads, SpecSearch)               *)
(***************************************************************************)

\* C11: a click on the C or F button changes state.units only: no loadWeather
\* call and no forecast request is made, state.weather, state.location and
\* state.activity stay, and the re-rendered insights (1-10 result with its
\* breakdown, header value, alert list) equal the ones shown before.
C11_UnitsToggleDisplayOnly ==
  [][state'.units # state.units =>
       /\ state' = [state EXCEPT !.units = state'.units]
       /\ loads' = loads
       /\ insightsView'.detail = insightsView.detail
       /\ insightsView'.header = insightsView.header
       /\ insightsView'.tenInt = insightsView.tenInt
       /\ insightsView'.alerts = insightsView.alerts
       /\ UNCHANGED <<localStorage, lastLocationItem>>]_vars

\* C11 witness: the page is in F mode and shows insights with a heat alert
\* for a reading of 35.1 C
C11_Witness ==
  /\ state.units = "F"
  /\ insightsView.rendered
  /\ state.weather.current.temperature = 351
  /\ \E k \in 1..Len(insightsView.alerts) : insightsView.alerts[k].type = "heat"

\* the ways a geolocation request fails
GeoFailures == {"denied", "timeout", "unsupported"}

\* the failed requests of a handler in a log
FailedGeo(log, origin) ==
  {k \in 1..Len(log) : log[k].origin = origin /\ log[k].outcome \in GeoFailures}

\* the handler has called loadWeather with the default location
LoadsDefault(origin) ==
  \E i \in 1..Len(loads) :
    loads[i].caller = origin /\ loads[i].location = DefaultLocation

\* C13 as claimed: after every failed geolocation request, at startup or from
\* the button, the handler that made it loads the default location.
C13_Original ==
  \A origin \in {"startup", "geoButton"} :
    FailedGeo(geoLog, origin) # {} => LoadsDefault(origin)

\* C13 amended: a failed request at startup is answered with the load of the
\* default location; a failed request from the button is answered with the
\* notice only: no loadWeather call, state as it was.
C13_GeoFailureRecovery ==
  /\ [](FailedGeo(geoLog, "startup") # {} => LoadsDefault("startup"))
  /\ [][FailedGeo(geoLog', "geoButton") # FailedGeo(geoLog, "geoButton") =>
          /\ loads' = loads
          /\ state' = state
          /\ toast' = showToast(GeoFailedText)]_vars

\* C13 witness: the request at startup was denied or timed out and the
\* default location is loaded; the request from the button failed too, and
\* the page still shows the default location with the notice
C13_Witness ==
  /\ \E k \in FailedGeo(geoLog, "startup") : geoLog[k].outcome # "unsupported"
  /\ LoadsDefault("startup")
  /\ FailedGeo(geoLog, "geoButton") # {}
  /\ state.location = DefaultLocation
  /\ toast = showToast(GeoFailedText)

\* the one persisted item that is a last location with numeric coordinates
ValidPersistedLast == LastObject(LastPayload(Cities[1], 0))

\* the geolocation requests made by the DOMContentLoaded handler
StartupGeoRequests(log) == {k \in 1..Len(log) : log[k].origin = "startup"}

\* C14: with a valid last location persisted the DOMContentLoaded handler
\* calls loadWeather for it and requests no geolocation; it requests
\* geolocation only when it starts without a valid last location; and the
\* item under LAST_KEY is written only in the step in which a loadWeather
\* call gets its forecast, with that call's location.
C14_LastLocationSkipsGeolocation ==
  /\ [][(startup = "notStarted" /\ startup' # "notStarted"
         /\ lastLocationItem = ValidPersistedLast) =>
          /\ Len(loads') = 1
          /\ loads'[1].caller = "startup"
          /\ loads'[1].location.name = Cities[1].name
          /\ loads'[1].location.latitude = Cities[1].latitude
          /\ loads'[1].location.longitude = Cities[1].longitude
          /\ loads'[1].pc = "awaitFetch"
          /\ geoLog' = geoLog]_vars
  /\ [][StartupGeoRequests(geoLog') # StartupGeoRequests(geoLog) =>
          /\ startup = "notStarted"
          /\ lastLocationItem # ValidPersistedLast]_vars
  /\ [][lastLocationItem' # lastLocationItem =>
          \E i \in 1..Len(loads) :
            /\ loads[i].pc = "awaitFetch"
            /\ loads'[i].pc = "returned"
            /\ state'.weather.request = i
            /\ lastLocationItem'.value.name = loads[i].location.name
            /\ lastLocationItem'.value.latitude = loads[i].location.latitude
            /\ lastLocationItem'.value.longitude = loads[i].location.longitude]_vars

\* C14 witness: the page opened with the persisted location, loaded it
\* without any geolocation request, and the load wrote the last location
\* again
C14_Witness ==
  /\ startup = "done"
  /\ geoLog = <<>>
  /\ Len(loads) = 1
  /\ loads[1].before.last = ValidPersistedLast
  /\ loads[1].pc = "returned"
  /\ lastLocationItem = setLastLocation(loads[1].location, clock)
  /\ clock > 0

\* the calls that ended in the catch block of loadWeather
FailedLoads == {i \in 1..Len(loads) : loads[i].pc = "failed"}

\* C15: when the second attempt of a loadWeather call fails, that step shows
\* the failure notice and leaves state.weather, the recents and the last
\* location as they are; the call has made its two requests and makes no
\* further one; the handler awaiting it goes on as after a success (the
\* DOMContentLoaded handler does not fall into its catch block); and as long
\* as no other call has succeeded, the three values are the ones the call
\* found.
C15_LoadFailureIsTerminal ==
  /\ [][\A i \in 1..Len(loads) :
          (loads[i].pc = "awaitFetch" /\ loads'[i].pc = "failed") =>
            /\ loads[i].requests = Len(Candidates)
            /\ toast' = [text |-> LoadFailedText, hidden |-> FALSE]
            /\ state'.weather = state.weather
            /\ localStorage' = localStorage
            /\ lastLocationItem' = lastLocationItem]_vars
  /\ [][\A i \in FailedLoads : loads'[i] = loads[i]]_vars
  /\ [](\A i \in FailedLoads :
          /\ loads[i].caller = "startup" =>
               /\ startup = "done"
               /\ Cardinality({j \in 1..Len(loads) : loads[j].caller = "startup"}) = 1
          /\ (\A j \in 1..Len(loads) : loads[j].pc # "returned") =>
               /\ state.weather = loads[i].before.weather
               /\ localStorage = loads[i].before.recents
               /\ lastLocationItem = loads[i].before.last)

\* C15 witness: a forecast is on the page, a later call for another location
\* failed both attempts, and the forecast, the recents and the last location
\* are still those of the earlier call
C15_Witness ==
  /\ Len(loads) = 2
  /\ loads[1].pc = "returned"
  /\ loads[2].pc = "failed"
  /\ loads[2].requests = 2
  /\ loads[2].location.name # loads[1].location.name
  /\ state.weather.request = 1
  /\ state.location = loads[2].location
  /\ lastLocationItem.value.name = loads[1].location.name
  /\ getRecentLocations(localStorage)[1].name = loads[1].location.name
  /\ toast = [text |-> LoadFailedText, hidden |-> FALSE]

\* C16: when a lookup of searchCities fails, the toast stays as it is and the
\* list of candidates is empty, or at least hidden, right after the failure,
\* whatever it showed before.
C16_Original ==
  [][(search'.outcome = "failed" /\ search.outcome # "failed") =>
       /\ toast' = toast
       /\ (search'.children = <<>> \/ search'.hidden)]_vars

\* the conditions of the stored recents the claim calls unreadable
Unreadable(store) == store.kind \in {"malformed", "object", "throws"}

\* C17: over an unreadable store getRecentLocations returns the empty list
\* and getLastLocation returns null, and a saveRecentLocation(L) made over
\* stored text that is malformed or no array leaves a store from which
\* getRecentLocations returns exactly [L].
C17_Original ==
  /\ [](Unreadable(localStorage) => getRecentLocations(localStorage) = <<>>)
  /\ [](lastLocationItem.kind \in {"malformed", "throws"}
          => ~HasLastLocation(lastLocationItem))
  /\ [][(localStorage.kind \in {"malformed", "object"}
         /\ Len(saveLog') = Len(saveLog) + 1) =>
          LET L == saveLog'[Len(saveLog')]
              read == getRecentLocations(localStorage')
          IN  /\ Len(read) = 1
              /\ read[1].id = L.id
              /\ read[1].name = L.name]_vars

\* the calls whose fetch succeeded
ReturnedLoads == {i \in 1..Len(loads) : loads[i].pc = "returned"}

\* the one among them that resolved last
LastResolved ==
  CHOOSE i \in ReturnedLoads :
    \A j \in ReturnedLoads : loads[j].finished <= loads[i].finished

\* x and y name the same place
SamePlace(x, y) ==
  /\ x.name = y.name
  /\ x.latitude = y.latitude
  /\ x.longitude = y.longitude

\* C18: a new loadWeather call leaves the calls under way as they are, and a
\* call under way stays under way until its own fetch succeeds or fails;
\* whenever calls have succeeded, state.weather is the forecast of the one
\* that resolved last, and the last location and the head of the recents
\* are that call's location.
C18_LastToResolveWins ==
  /\ [][/\ Len(loads') >= Len(loads)
        /\ \A i \in 1..Len(loads) :
             \/ loads'[i] = loads[i]
             \/ /\ loads[i].pc = "awaitFetch"
                /\ loads'[i].location = loads[i].location
                /\ \A j \in 1..Len(loads) : j # i => loads'[j] = loads[j]]_vars
  /\ [](ReturnedLoads # {} =>
          LET location == loads[LastResolved].location
          IN  /\ state.weather.request = LastResolved
              /\ lastLocationItem.kind = "object"
              /\ SamePlace(lastLocationItem.value, location)
              /\ getRecentLocations(localStorage) # <<>>
              /\ SamePlace(getRecentLocations(localStorage)[1], location))

\* C18 witness: the second call was made while the first was fetching, for
\* another place; the second resolved first and the first resolved last, and
\* the page, the last location and the head of the recents are those of the
\* first call, although state.location is the one of the second
C18_Witness ==
  /\ Len(loads) = 2
  /\ loads[1].pc = "returned"
  /\ loads[2].pc = "returned"
  /\ loads[2].before.weather.request = 0
  /\ loads[1].finished > loads[2].finished
  /\ ~SamePlace(loads[1].location, loads[2].location)
  /\ state.weather.request = 1
  /\ state.location = loads[2].location
  /\ SamePlace(lastLocationItem.value, loads[1].location)
  /\ SamePlace(getRecentLocations(localStorage)[1], loads[1].location)

(***************************************************************************)
(* Properties of the temperature penalty (SpecTemperature)                 *)
(***************************************************************************)

\* the bands of the temperature table for activity a, each with whether the
\* temperature T (tenths of a degree) lies in it and the penalty it gives
TemperatureTable(a, T) ==
  <<[applies |-> T >= 150 /\ T <= 250, penalty |-> 0],
    [applies |-> T >= 100 /\ T < 150, penalty |-> 1],
    [applies |-> T > 250 /\ T <= 300, penalty |-> 1],
    [applies |-> T >= 50 /\ T < 100, penalty |-> 2],
    [applies |-> T < 50, penalty |-> 3],
    [applies |-> T > 300 /\ T <= 350, penalty |-> IF a = "road" THEN 3 ELSE 4],
    [applies |-> T > 350, penalty |-> IF a = "road" THEN 6 ELSE 7]>>

\* the indexes of the bands the temperature lies in
BandsOf(a, T) ==
  {i \in DOMAIN TemperatureTable(a, T) : TemperatureTable(a, T)[i].applies}

\* C21: for every temperature exactly one band of the table applies (the
\* bands are exhaustive and do not overlap), and the temperature penalty of
\* road, gravel and MTB is the value of that band.
C21_TemperatureTable ==
  current.temperature # Null =>
    \A a \in Activities :
      /\ Cardinality(BandsOf(a, current.temperature)) = 1
      /\ \A i \in BandsOf(a, current.temperature) :
           scores[a].breakdown.temperaturePenalty
             = TemperatureTable(a, current.temperature)[i].penalty * 100

\* C21 witness: 30.1 C, the first temperature of the band in which the
\* activities differ: road 3, gravel and MTB 4
C21_Witness ==
  /\ current.temperature = 301
  /\ scores.road.breakdown.temperaturePenalty = 300
  /\ scores.gravel.breakdown.temperaturePenalty = 400
  /\ scores.mtb.breakdown.temperaturePenalty = 400

(***************************************************************************)
(* Properties of the score breakdown (SpecFactors)                         *)
(***************************************************************************)

\* neither ceiling applies: humidity < 90 and temperature <= 35 C, a missing
\* field counting as the 0 it is scored as
NoCeiling ==
  /\ NumberOrZero(current.humidity) < 90
  /\ NumberOrZero(current.temperature) <= 350

\* wind <= 10 km/h, 15 <= T <= 25, humidity <= 60, visibility >= 10 km, UV <= 5
IdealReading ==
  /\ current.windSpeed # Null /\ current.windSpeed <= 1000
  /\ current.temperature # Null
  /\ current.temperature >= 150 /\ current.temperature <= 250
  /\ current.humidity # Null /\ current.humidity <= 60
  /\ current.visibility # Null /\ current.visibility >= 10000
  /\ current.uvIndex # Null /\ current.uvIndex <= 50

\* C22: every breakdown value is non-negative; when neither ceiling applies
\* and 10 minus the five reported penalties is >= 1, the score is 10 minus
\* these penalties; and an ideal reading scores exactly 10.0 with the
\* top-band message and no penalty, for every activity.
C22_BreakdownIsWhatWasSubtracted ==
  \A a \in Activities :
    /\ scores[a].breakdown.windPenalty >= 0
    /\ scores[a].breakdown.temperaturePenalty >= 0
    /\ scores[a].breakdown.humidityPenalty >= 0
    /\ scores[a].breakdown.visibilityPenalty >= 0
    /\ scores[a].breakdown.uvPenalty >= 0
    /\ (NoCeiling /\ 1000 - BreakdownSum(scores[a]) >= 100) =>
         scores[a].score = 1000 - BreakdownSum(scores[a])
    /\ IdealReading =>
         /\ scores[a].score = 1000
         /\ BreakdownSum(scores[a]) = 0
         /\ scores[a].message = <<BandTexts(a)[1]>>

\* C22 witness: a headwind reading without ceiling whose five penalties are
\* all positive, the wind penalty being the post-multiplier 1.3, and whose
\* road score is 10 minus their sum
C22_Witness ==
  /\ NoCeiling
  /\ windRelation = "headwind"
  /\ scores.road.breakdown.windPenalty = 130
  /\ scores.road.breakdown.temperaturePenalty > 0
  /\ scores.road.breakdown.humidityPenalty > 0
  /\ scores.road.breakdown.visibilityPenalty > 0
  /\ scores.road.breakdown.uvPenalty > 0
  /\ scores.road.score = 1000 - BreakdownSum(scores.road)
  /\ scores.road.score > 100

\* the cap of the high-humidity ceiling: 4.0 for road, 3.5 for gravel and MTB
HumidityCap(a) == IF a = "road" THEN 400 ELSE 350

\* 10 minus the wind, temperature and humidity penalties
RunningTotal(r) ==
  1000 - r.breakdown.windPenalty - r.breakdown.temperaturePenalty
  - r.breakdown.humidityPenalty

\* the visibility and UV penalties, subtracted after the ceiling
LatePenalties(r) == r.breakdown.visibilityPenalty + r.breakdown.uvPenalty

ResponseTimes == [i \in 1..Len(HourlyTimes(response)) |-> DateOf(HourlyTimes(response)[i])]

\* the indexes (from 0) of the entries at minimal absolute distance to now
NearestIndexes ==
  {i \in 0..(Len(ResponseTimes) - 1) :
     \A j \in 0..(Len(ResponseTimes) - 1) :
       Abs(ResponseTimes[i + 1] - nowMs) <= Abs(ResponseTimes[j + 1] - nowMs)}

\* the index the claim names: the smallest of them, 0 for an empty series
ClaimedIndex ==
  IF NearestIndexes = {} THEN 0
  ELSE CHOOSE i \in NearestIndexes : \A j \in NearestIndexes : i <= j

\* the fields current and an hourly entry have in common
CurrentFields ==
  {"temperature", "humidity", "windSpeed", "windDirection", "precipitation",
   "precipitationProbability", "weatherCode", "uvIndex", "visibility",
   "cloudCover"}

\* the array of the response each field is taken from
ArrayOf(field) ==
  CASE field = "temperature" -> "temperature_2m"
    [] field = "humidity" -> "relativehumidity_2m"
    [] field = "windSpeed" -> "windspeed_10m"
    [] field = "windDirection" -> "winddirection_10m"
    [] field = "precipitation" -> "precipitation"
    [] field = "precipitationProbability" -> "precipitation_probability"
    [] field = "weatherCode" -> "weathercode"
    [] field = "uvIndex" -> "uv_index"
    [] field = "visibility" -> "visibility"
    [] OTHER -> "cloudcover"

\* C24: nearestIndex is the smallest index k whose timestamp is at minimal
\* absolute distance to now (0 for an empty series, and then every field of
\* current is null); every field of current is the value its array holds at
\* k (null if the array is missing or holds null there); hourly[k] holds the
\* same values as current; next24FromNearest is the at most 24 consecutive
\* hourly entries from k on.
C24_CurrentFromNearestHour ==
  LET k == parsed.nearestIndex
      n == Len(parsed.hourly)
  IN  /\ k = ClaimedIndex
      /\ n = Len(ResponseTimes)
      /\ n = 0 => k = 0 /\ \A f \in CurrentFields : parsed.current[f] = Null
      /\ n > 0 =>
           /\ k < n
           /\ \A f \in CurrentFields :
                /\ parsed.current[f] = parsed.hourly[k + 1][f]
                /\ parsed.current[f]
                     = IF ArrayOf(f) \in DOMAIN response.hourly
                       THEN response.hourly[ArrayOf(f)][k + 1]
                       ELSE Null
      /\ Len(parsed.next24FromNearest) = Min(SliceHours, n - k)
      /\ \A i \in 1..Len(parsed.next24FromNearest) :
           parsed.next24FromNearest[i] = parsed.hourly[k + i]

\* C24 witness: 27 hours served and now exactly half an hour after hour 2:
\* hours 2 and 3 are equally near, index 2 is taken, current holds the values
\* of index 2 and the 25 entries from there on are cut to 24
C24_Witness ==
  /\ Len(parsed.hourly) = 27
  /\ nowMs = 150
  /\ NearestIndexes = {2, 3}
  /\ parsed.nearestIndex = 2
  /\ parsed.current.windSpeed = 802
  /\ Len(parsed.next24FromNearest) = 24
  /\ parsed.next24FromNearest[24].time = [hour |-> 25]

(***************************************************************************)
(* Properties of the recent precipitation (SpecPrecip)                     *)
(***************************************************************************)

\* the hourly entries whose timestamp t satisfies now - H hours <= t <= now
InWindow(H) ==
  {i \in 1..Len(parsed.hourly) :
     /\ nowMs - H * 60 <= DateOf(parsed.hourly[i].time)
     /\ DateOf(parsed.hourly[i].time) <= nowMs}

\* what an entry contributes: its precipitation, 0 if null or no number
Amount(i) ==
  IF parsed.hourly[i].precipitation \in {Null, NaN} THEN 0
  ELSE parsed.hourly[i].precipitation

\* the sum of the amounts of the entries of S among lo..hi
RECURSIVE SumAmounts(_, _, _)
SumAmounts(S, lo, hi) ==
  IF lo > hi THEN 0
  ELSE IF lo = hi THEN (IF lo \in S THEN Amount(lo) ELSE 0)
  ELSE SumAmounts(S, lo, (lo + hi) \div 2)
       + SumAmounts(S, (lo + hi) \div 2 + 1, hi)

\* the sum the claim gives for a window of H hours
ClaimedSum(H) == SumAmounts(InWindow(H), 1, Len(parsed.hourly))

\* the mud factor of the claim for a sum in tenths of a millimetre
ClaimedMudFactor(sum) ==
  CASE sum < 30 -> 0
    [] sum >= 30 /\ sum < 100 -> 1
    [] sum >= 100 /\ sum < 200 -> 2
    [] sum >= 200 -> 3

\* C25: the sum over the last H hours is the sum of the precipitation of
\* exactly the hourly entries with now - H hours <= t <= now, null and
\* non-numeric amounts counting 0, with H = 48 for the gravel mud factor and
\* H = 72 for MTB trail readiness; the mud factor is 0 below 3 mm, 1 from 3,
\* 2 from 10 and 3 from 20 mm, and so never falls when the sum rises.
C25_RecentPrecipitationWindow ==
  /\ [](conditions.assessed =>
          /\ conditions.last48h = ClaimedSum(48)
          /\ conditions.last72h = ClaimedSum(72)
          /\ conditions.mudFactor = ClaimedMudFactor(conditions.last48h))
  /\ [][(conditions.assessed /\ conditions'.assessed) =>
          /\ conditions'.last48h >= conditions.last48h =>
               conditions'.mudFactor >= conditions.mudFactor
          /\ conditions'.last48h <= conditions.last48h =>
               conditions'.mudFactor <= conditions.mudFactor]_vars

\* C25 witness: every hour reports null but for 3.0 mm exactly 48 hours
\* before now, with later hours in the forecast: the 48 h and 72 h sums are
\* 3.0 mm and the mud factor is 1
C25_Witness ==
  /\ conditions.assessed
  /\ nowMs = 4500
  /\ Len(parsed.hourly) > 76
  /\ parsed.hourly[28].time = [hour |-> 27]
  /\ parsed.hourly[28].precipitation = 30
  /\ parsed.hourly[1].precipitation = Null
  /\ conditions.last48h = 30
  /\ conditions.last72h = 30
  /\ conditions.mudFactor = 1

(***************************************************************************)
(* Relations between the scores (SpecFactors)                              *)
(***************************************************************************)

\* C26: for one and the same reading, gravel score <= MTB score <= road
\* score with crosswind.
C26_ActivityOrder ==
  windRelation = "crosswind" =>
    /\ scores.gravel.score <= scores.mtb.score
    /\ scores.mtb.score <= scores.road.score

\* C26 witness: 25 km/h at 33 C, where both inequalities are strict: road
\* 10 - 2 - 3 = 5, MTB 10 - 2 - 4 = 4, gravel 10 - 3 - 4 = 3
C26_Witness ==
  /\ windRelation = "crosswind"
  /\ current.windSpeed = 2500
  /\ current.temperature = 330
  /\ scores.road.score = 500
  /\ scores.mtb.score = 400
  /\ scores.gravel.score = 300

\* a step that changes one (present) field of the reading and nothing else
FieldChanged(field) ==
  /\ current[field] # Null
  /\ current'[field] # Null
  /\ current' = [current EXCEPT ![field] = current'[field]]
  /\ windRelation' = windRelation

FieldRaised(field) == FieldChanged(field) /\ current'[field] > current[field]

FieldLowered(field) == FieldChanged(field) /\ current'[field] < current[field]

\* no activity's score is higher after the step than before
NoScoreRaised == \A a \in Activities : scores'[a].score <= scores[a].score

\* C27: for every activity and wind relation, all other inputs fixed, a
\* higher wind speed never gives a smaller wind penalty and never a higher
\* score; lower visibility, higher UV and higher humidity never raise the
\* score.
C27_WorseFactorNeverRaisesScore ==
  [][/\ FieldRaised("windSpeed") =>
          /\ NoScoreRaised
          /\ \A a \in Activities :
               scores'[a].breakdown.windPenalty >= scores[a].breakdown.windPenalty
     /\ FieldLowered("visibility") => NoScoreRaised
     /\ FieldRaised("uvIndex") => NoScoreRaised
     /\ FieldRaised("humidity") => NoScoreRaised]_vars

\* C27 witness: an ideal temperature with 25 km/h crosswind, 85 % humidity,
\* 7 km visibility and UV 8, each of which takes its share off the road
\* score: 10 - 2 - 2 - 1 - 1 = 4
C27_Witness ==
  /\ windRelation = "crosswind"
  /\ current.temperature = 200
  /\ current.windSpeed = 2500
  /\ current.humidity = 85
  /\ current.visibility = 7000
  /\ current.uvIndex = 80
  /\ scores.road.breakdown.windPenalty = 200
  /\ scores.road.breakdown.humidityPenalty = 200
  /\ scores.road.breakdown.visibilityPenalty = 100
  /\ scores.road.breakdown.uvPenalty = 100
  /\ scores.road.score = 400

(***************************************************************************)
(* More properties of the page (SpecLoads, SpecUnits)                      *)
(***************************************************************************)

\* no loadWeather call is waiting for its forecast
NoLoadInFlight == \A i \in 1..Len(loads) : loads[i].pc # "awaitFetch"

\* C28 as stated: whenever no loadWeather request is in flight, a non-null
\* state.weather is the forecast that was fetched for the coordinates of
\* state.location.
C28_Original ==
  (NoLoadInFlight /\ state.weather.request # 0) =>
    /\ loads[state.weather.request].location.latitude = state.location.latitude
    /\ loads[state.weather.request].location.longitude = state.location.longitude

\* generateSafetyAlerts on the snapshot includes a visibility alert
HasVisibilityAlert(c) ==
  \E k \in 1..Len(generateSafetyAlerts(c)) :
    generateSafetyAlerts(c)[k].type = "visibility"

\* C29 as stated: for every snapshot the forecast path puts into
\* state.weather (one of the reduced parameter set included), the breakdown
\* of road, gravel and MTB has the maximal visibilityPenalty 3 if and only if
\* generateSafetyAlerts includes a visibility alert.
C29_Original ==
  state.weather.request # 0 =>
    \A a \in Activities :
      ScoreAll(state.weather.current, "crosswind")[a].breakdown.visibilityPenalty = 300
        <=> HasVisibilityAlert(state.weather.current)

\* C30 as stated: for a fixed snapshot the temperature recommendation of the
\* Biking Conditions tile is the same whether state.units is C or F: a
\* change of the units with state.weather unchanged leaves it as it is.
C30_Original ==
  [][(insightsView.rendered /\ state'.units # state.units
      /\ state'.weather = state.weather) =>
       insightsView'.temperatureTip = insightsView.temperatureTip]_vars

====
